---- MODULE Spec2Model ----
(***************************************************************************)
(* favs: bookmark aggregation.  Model of the filter engine                 *)
(* (pkg/bookmark), the pipeline orchestrator (cmd sync) and the MCP        *)
(* protocol server (pkg/mcp).                                              *)
(*                                                                         *)
(* Go strings that the code inspects character by character (urls, titles, *)
(* folder names, patterns, queries) are sequences of one-character         *)
(* strings, so that indexing, lower-casing, prefix and substring tests are *)
(* computed the way the code computes them.  Names that the code only      *)
(* compares for equality (adapter names, methods, resource identifiers)    *)
(* are plain strings.  A nil pointer is the empty tuple and a non-nil      *)
(* pointer to x is <<x>>.                                                  *)
(***************************************************************************)
EXTENDS Integers, Sequences, FiniteSets, TLC

VARIABLES
    \* ---- filter engine run (bookmark.Filter applied to an input) ----
    fpc,          \* "idle" | "input" | "filtered" | "deduplicated"
    fBookmarks,   \* the []Bookmark handed to Filter
    fOpts,        \* the FilterOptions handed to Filter
    fResult,      \* the FilterResult returned
    fDedup,       \* what bookmark.Deduplicate returned for fBookmarks
    \* ---- process-wide state shared by the server and the pipeline ----
    inputs,       \* adapter registry: name -> registered input adapter
    outputs,      \* adapter registry: name -> registered output adapter
    regLog,       \* the RegisterInput / RegisterOutput calls made so far, in order
    cfgEnabled,   \* names whose config.InputConfig has Enabled = true
    \* ---- MCP server (Server.Run) ----
    spc,          \* "idle" | "loop" | "decode" | "handle" | "sync_reload" | "returned"
    cache,        \* Server.cache: <<>> (nil) or <<collection>>
    decErr,       \* json.Decoder's sticky error: "" | "syntax" | "EOF"
    req,          \* the decoded Request being handled
    resp,         \* the last Response written to stdout
    nDecoded,     \* frames decoded into a Request so far
    nSkipped,     \* frames consumed that did not decode into a Request
    nResp,        \* responses written so far
    nErrors,      \* of these, responses that carry an error object
    afterSkip,    \* "" | "skipped": the last frame consumed was skipped
                  \* | "request": the last request decoded directly followed a skipped frame
                  \* | "stuck": the last Decode failed without consuming a frame
    cancelled,    \* ctx.Done() is closed
    retErr,       \* what Run returned: "" (nil) or "context canceled"
    visits,       \* the visits made to the sources by the last getBookmarks /
                  \* readAllInputs / readPreferredInput
    served,       \* the collection the last resources/read answered from,
                  \* <<>> when there was none since the last invalidation
    \* ---- pipeline (runSync) ----
    ppc,          \* "idle" | "start" | "read_all" | "collected" | "filtered" | "done" | "failed"
    allMode,      \* --all
    browserFlag,  \* --browser ("" when absent)
    profileFlag,  \* --profile ("" when absent)
    outputFormat, \* --format
    cfgProfile,   \* the Profile of every config.InputConfig
    cfgPipeline,  \* cfg.Pipeline: the filter rules and the transform flags
    pIdx,         \* readAllInputs: position in inputPreference
    asked,        \* readPreferredInput: the Available() answers the preference
                  \* walk got, in order
    collection,   \* the Collection being assembled
    filterResult, \* what bookmark.Filter returned
    filteredCollection,  \* <<>> or <<the Collection handed to the renderer>>
    rendered,     \* <<>> or <<what Render was called with>>
    syncErr,      \* the error runSync returned, "" for nil
    \* ---- request handlers run in parallel (getBookmarks, toolSyncBookmarks) ----
    cacheMu,      \* Server.cacheMu: [writer |-> held exclusively, readers |-> RLock holders]
    hpc,          \* per handler: "idle" | "s_lock" | "s_clear" | "rlock" | "check"
                  \*              | "walk" | "lock" | "store"
    hCollection,  \* per handler: <<>> or <<the collection it read or was served>>
    hCalls,       \* per handler: calls begun so far
    hReadAt,      \* per handler: nInvalidations when it walked the sources
    nInvalidations,   \* executions of s.cache = nil so far
    cacheReadAt,      \* nInvalidations when the cached collection was read
    walksSinceEmpty,  \* walks over the sources begun since the cache last left Populated
    \* ---- one Read of a source reader (chromium, safari, opml, firefox) ----
    rpc,          \* "idle" | "chromium" | "safari" | "opml" | "fx_rows" | "fx_path" | "done"
    rRaw,         \* what the reader decoded from the file or the database
    rBookmarks,   \* the []Bookmark built so far
    rRow,         \* firefox: index of the row of the bookmark query being scanned
    rSeen,        \* firefox: the seen map
    currentParent,    \* firefox: the folder the path loop is at
    folderPath,       \* firefox: the path built so far
    pathIter          \* firefox: iterations the path loop has made for this row, modulo 2

filterVars == <<fpc, fBookmarks, fOpts, fResult, fDedup>>
sharedVars == <<inputs, outputs, regLog, cfgEnabled>>
serverVars == <<spc, cache, decErr, req, resp, nDecoded, nSkipped, nResp, nErrors,
                afterSkip, cancelled, retErr, served>>
syncVars   == <<ppc, allMode, browserFlag, profileFlag, outputFormat, cfgProfile,
                cfgPipeline, pIdx, asked, collection, filterResult, filteredCollection,
                rendered, syncErr>>

handlerVars == <<cacheMu, hpc, hCollection, hCalls, hReadAt, nInvalidations,
                 cacheReadAt, walksSinceEmpty>>

readerVars == <<rpc, rRaw, rBookmarks, rRow, rSeen, currentParent, folderPath, pathIter>>

vars == <<fpc, fBookmarks, fOpts, fResult, fDedup, inputs, outputs, regLog, cfgEnabled,
          spc, cache, decErr, req, resp, nDecoded, nSkipped, nResp, nErrors,
          afterSkip, cancelled, retErr, visits, served,
          ppc, allMode, browserFlag, profileFlag, outputFormat, cfgProfile,
          cfgPipeline, pIdx, asked, collection, filterResult, filteredCollection,
          rendered, syncErr,
          cacheMu, hpc, hCollection, hCalls, hReadAt, nInvalidations,
          cacheReadAt, walksSinceEmpty,
          rpc, rRaw, rBookmarks, rRow, rSeen, currentParent, folderPath, pathIter>>

Nil == "nil"

\* ------------------------------------------------------------------------
\* Bounds of the model
\* ------------------------------------------------------------------------
MaxRecs == 2      \* longest record sequence handed to Filter

\* ------------------------------------------------------------------------
\* Strings
\* ------------------------------------------------------------------------
UpperCase == <<"A","B","C","D","E","F","G","H","I","J","K","L","M",
               "N","O","P","Q","R","S","T","U","V","W","X","Y","Z">>
LowerCase == <<"a","b","c","d","e","f","g","h","i","j","k","l","m",
               "n","o","p","q","r","s","t","u","v","w","x","y","z">>

ToLowerChar(c) ==
    IF \E i \in 1..26 : UpperCase[i] = c
    THEN LowerCase[CHOOSE i \in 1..26 : UpperCase[i] = c]
    ELSE c

\* strings.ToLower
ToLower(s) == [i \in 1..Len(s) |-> ToLowerChar(s[i])]

\* strings.Index(s, c) for a one-byte needle: 0-based, -1 when absent
Index(s, c) ==
    IF \E i \in 1..Len(s) : s[i] = c
    THEN (CHOOSE i \in 1..Len(s) : s[i] = c /\ \A j \in 1..(i-1) : s[j] # c) - 1
    ELSE -1

\* strings.Contains
Contains(s, sub) ==
    \E i \in 0..(Len(s) - Len(sub)) : SubSeq(s, i + 1, i + Len(sub)) = sub

\* strings.Join
RECURSIVE Join(_, _)
Join(parts, sep) ==
    IF Len(parts) = 0 THEN <<>>
    ELSE IF Len(parts) = 1 THEN parts[1]
    ELSE parts[1] \o sep \o Join(Tail(parts), sep)

\* ------------------------------------------------------------------------
\* regexp.Compile / Regexp.MatchString, for the pattern language the model
\* draws from: literals, '.', a leading '^', and parentheses.
\* ------------------------------------------------------------------------
RECURSIVE ParenDepthOk(_, _)
ParenDepthOk(p, depth) ==
    IF Len(p) = 0 THEN depth = 0
    ELSE IF Head(p) = "(" THEN ParenDepthOk(Tail(p), depth + 1)
    ELSE IF Head(p) = ")" THEN depth > 0 /\ ParenDepthOk(Tail(p), depth - 1)
    ELSE ParenDepthOk(Tail(p), depth)

\* err == nil of regexp.Compile(p)
regexpCompile(p) == ParenDepthOk(p, 0)

RegexBody(p) ==
    LET q == IF Len(p) > 0 /\ Head(p) = "^" THEN Tail(p) ELSE p
    IN  SelectSeq(q, LAMBDA c : c \notin {"(", ")"})

RegexMatchAt(body, s, i) ==
    /\ i + Len(body) <= Len(s)
    /\ \A k \in 1..Len(body) : body[k] = "." \/ body[k] = s[i + k]

\* (*Regexp).MatchString: unanchored unless the pattern starts with '^'
MatchString(p, s) ==
    LET body == RegexBody(p)
    IN  IF Len(p) > 0 /\ Head(p) = "^"
        THEN RegexMatchAt(body, s, 0)
        ELSE \E i \in 0..Len(s) : RegexMatchAt(body, s, i)

\* ------------------------------------------------------------------------
\* pkg/bookmark: filter engine
\* ------------------------------------------------------------------------
\* extractProtocol: the lower-cased text before the first ':'; empty when
\* there is no ':' or the url starts with one.
extractProtocol_CaseSensitive(url) ==
    LET idx == Index(url, ":")
    IN  IF idx <= 0 THEN <<>> ELSE SubSeq(url, 1, idx)

extractProtocol(url) ==
    LET idx == Index(url, ":")
    IN  IF idx <= 0 THEN <<>> ELSE ToLower(SubSeq(url, 1, idx))

TruncTitle == 40
TruncURL == 60

truncate(s, maxLen) ==
    IF Len(s) <= maxLen THEN s
    ELSE IF maxLen <= 3 THEN SubSeq(s, 1, maxLen)
    ELSE SubSeq(s, 1, maxLen - 3) \o <<".", ".", ".">>

\* the compiled patterns, in order (patterns that fail to compile are dropped)
CompiledPatterns(opts) == SelectSeq(opts.ExcludeURLPatterns, regexpCompile)

\* the lookup maps built from the protocol lists
excludeProtos(opts) ==
    {ToLower(opts.ExcludeProtocols[i]) : i \in 1..Len(opts.ExcludeProtocols)}
warnProtos(opts) ==
    {ToLower(opts.WarnProtocols[i]) : i \in 1..Len(opts.WarnProtocols)}

\* The chain of exclusion checks of the loop body: the reason the record is
\* excluded for, "" when it is kept.  Each check runs only if no earlier
\* one excluded the record.
ExclusionReason_NoLengthCheck(b, opts) ==
    LET folderStr == Join(b.FolderPath, <<"/">>)
        proto == extractProtocol(b.URL)
        patterns == CompiledPatterns(opts)
    IN  IF proto \in excludeProtos(opts) THEN "protocol"
        ELSE IF /\ Len(opts.IncludeFolders) > 0
                /\ ~ \E i \in 1..Len(opts.IncludeFolders) :
                        Contains(folderStr, opts.IncludeFolders[i])
        THEN "not_included"
        ELSE IF \E i \in 1..Len(opts.ExcludeFolders) :
                    Contains(folderStr, opts.ExcludeFolders[i])
        THEN "excluded_folder"
        ELSE IF \E i \in 1..Len(patterns) : MatchString(patterns[i], b.URL)
        THEN "url_pattern"
        ELSE ""

ExclusionReason(b, opts) ==
    LET folderStr == Join(b.FolderPath, <<"/">>)
        proto == extractProtocol(b.URL)
        patterns == CompiledPatterns(opts)
    IN  IF proto \in excludeProtos(opts) THEN "protocol"
        ELSE IF opts.MaxURLLength > 0 /\ Len(b.URL) > opts.MaxURLLength
        THEN "url_length"
        ELSE IF /\ Len(opts.IncludeFolders) > 0
                /\ ~ \E i \in 1..Len(opts.IncludeFolders) :
                        Contains(folderStr, opts.IncludeFolders[i])
        THEN "not_included"
        ELSE IF \E i \in 1..Len(opts.ExcludeFolders) :
                    Contains(folderStr, opts.ExcludeFolders[i])
        THEN "excluded_folder"
        ELSE IF \E i \in 1..Len(patterns) : MatchString(patterns[i], b.URL)
        THEN "url_pattern"
        ELSE ""

\* the warnings one kept record appends, in order: the fields of the two
\* fmt.Sprintf messages
RecordWarnings_OnlyFirst(b, opts) ==
    LET proto == extractProtocol(b.URL)
    IN  IF proto \in warnProtos(opts)
        THEN << [kind |-> "protocol", title |-> truncate(b.Title, TruncTitle),
                 proto |-> proto, chars |-> 0, url |-> truncate(b.URL, TruncURL)] >>
        ELSE IF opts.WarnURLLength > 0 /\ Len(b.URL) > opts.WarnURLLength
        THEN << [kind |-> "long_url", title |-> truncate(b.Title, TruncTitle),
                 proto |-> <<>>, chars |-> Len(b.URL), url |-> truncate(b.URL, TruncURL)] >>
        ELSE <<>>

RecordWarnings(b, opts) ==
    LET proto == extractProtocol(b.URL)
        w1 == IF proto \in warnProtos(opts)
              THEN << [kind |-> "protocol", title |-> truncate(b.Title, TruncTitle),
                       proto |-> proto, chars |-> 0, url |-> truncate(b.URL, TruncURL)] >>
              ELSE <<>>
        w2 == IF opts.WarnURLLength > 0 /\ Len(b.URL) > opts.WarnURLLength
              THEN << [kind |-> "long_url", title |-> truncate(b.Title, TruncTitle),
                       proto |-> <<>>, chars |-> Len(b.URL), url |-> truncate(b.URL, TruncURL)] >>
              ELSE <<>>
    IN  w1 \o w2

EmptyFilterResult == [Bookmarks |-> <<>>, Warnings |-> <<>>, Excluded |-> 0]

\* one iteration of the loop over the input
FilterStep_Prepend(result, b, opts) ==
    IF ExclusionReason(b, opts) # ""
    THEN [result EXCEPT !.Excluded = @ + 1]
    ELSE [result EXCEPT !.Warnings = @ \o RecordWarnings(b, opts),
                        !.Bookmarks = <<b>> \o @]

FilterStep_NoContinue(result, b, opts) ==
    IF ExclusionReason(b, opts) # ""
    THEN [result EXCEPT !.Excluded = @ + 1,
                        !.Bookmarks = IF ExclusionReason(b, opts) = "url_pattern"
                                      THEN Append(@, b) ELSE @]
    ELSE [result EXCEPT !.Warnings = @ \o RecordWarnings(b, opts),
                        !.Bookmarks = Append(@, b)]

FilterStep(result, b, opts) ==
    IF ExclusionReason(b, opts) # ""
    THEN [result EXCEPT !.Excluded = @ + 1]
    ELSE [result EXCEPT !.Warnings = @ \o RecordWarnings(b, opts),
                        !.Bookmarks = Append(@, b)]

RECURSIVE FilterLoop(_, _, _, _)
FilterLoop(bookmarks, opts, i, result) ==
    IF i > Len(bookmarks) THEN result
    ELSE FilterLoop(bookmarks, opts, i + 1, FilterStep(result, bookmarks[i], opts))

Filter(bookmarks, opts) == FilterLoop(bookmarks, opts, 1, EmptyFilterResult)

\* ------------------------------------------------------------------------
\* Inputs of the filter engine run
\* ------------------------------------------------------------------------
sData   == <<"d","a","t","a">>
sDATA   == <<"D","A","T","A">>
sJs     == <<"j","s">>
sFile   == <<"f">>
sDev    == <<"D","e","v">>
sTrash  == <<"T","r">>

Bookmark(title, url, path) ==
    [Title |-> title, URL |-> url, FolderPath |-> path,
     Source |-> "chrome", Profile |-> "Default"]

RecPool ==
    { Bookmark(<<"A">>,      <<"h",":","a">>,                          <<>>),
      Bookmark(<<"A","2">>,  <<"h",":","a">>,                          <<sDev>>),
      Bookmark(<<"B">>,      <<"d","a","t","a",":","x">>,              <<sDev>>),
      Bookmark(<<"C">>,      <<"D","a","T","A",":">>,                  <<>>),
      Bookmark(<<"D">>,      <<"d","a","t","a">>,                      <<sDev, sTrash>>),
      Bookmark(<<"E">>,      <<":","d","a","t","a",":">>,              <<>>),
      Bookmark(<<"F">>,      <<"j","s",":","a","(","1",")">>,          <<sTrash>>),
      Bookmark(<<"G">>,      <<"h",":","d","a","t","a",":","a","a">>,  <<sTrash, sDev>>),
      Bookmark(<<"H">>,      <<"d","a","t",":","a">>,                  <<>>),
      Bookmark(<<"I">>,      <<"f",":","d","a","t","a","x">>,          <<sDev>>) }

ExcludeProtocolsPool == { <<>>, <<sData>>, <<sDATA>>, <<sJs, <<"D","a","t","a">> >> }
MaxURLLengthPool     == { 0, 6 }
IncludeFoldersPool   == { <<>>, <<sDev>> }
ExcludeFoldersPool   == { <<>>, <<sTrash>> }
ExcludeURLPatternsPool ==
    { <<>>,
      << <<"(","j","s">> >>,
      << <<"(">>, <<"^","h",":","a">> >>,
      << <<"t","a",".">> >> }
WarnPool == { [p |-> <<>>, n |-> 0], [p |-> <<sFile, sData>>, n |-> 5] }

FilterOptionsPool ==
    { [IncludeFolders |-> inc, ExcludeFolders |-> exc, ExcludeURLPatterns |-> pat,
       ExcludeProtocols |-> ep, WarnProtocols |-> w.p,
       MaxURLLength |-> ml, WarnURLLength |-> w.n] :
        inc \in IncludeFoldersPool, exc \in ExcludeFoldersPool,
        pat \in ExcludeURLPatternsPool, ep \in ExcludeProtocolsPool,
        ml \in MaxURLLengthPool, w \in WarnPool }

SeqsUpTo(S, n) == UNION { [1..k -> S] : k \in 0..n }

\* Deduplicate: the first record of every URL, in order
RECURSIVE DedupLoop(_, _, _)
DedupLoop(bookmarks, seen, result) ==
    IF Len(bookmarks) = 0 THEN result
    ELSE IF Head(bookmarks).URL \in seen
    THEN DedupLoop(Tail(bookmarks), seen, result)
    ELSE DedupLoop(Tail(bookmarks), seen \cup {Head(bookmarks).URL},
                   Append(result, Head(bookmarks)))

Deduplicate_LastWins(bookmarks) ==
    LET keep == { i \in 1..Len(bookmarks) :
                    \A j \in (i + 1)..Len(bookmarks) : bookmarks[j].URL # bookmarks[i].URL }
        RECURSIVE Pick(_)
        Pick(i) == IF i > Len(bookmarks) THEN <<>>
                   ELSE (IF i \in keep THEN << bookmarks[i] >> ELSE <<>>) \o Pick(i + 1)
    IN  Pick(1)

Deduplicate(bookmarks) == DedupLoop(bookmarks, {}, <<>>)

\* ------------------------------------------------------------------------
\* pkg/bookmark: Collection
\* ------------------------------------------------------------------------
NewCollection == [Bookmarks |-> <<>>, Sources |-> <<>>]

SourceInfo(name, profile, path) ==
    [Name |-> name, Profile |-> profile, Path |-> path, Count |-> 0]

\* Collection.Add: append the records and the source, its Count set to
\* the number of records added
Add(c, bookmarks, source) ==
    [Bookmarks |-> c.Bookmarks \o bookmarks,
     Sources   |-> Append(c.Sources, [source EXCEPT !.Count = Len(bookmarks)])]

Count(c) == Len(c.Bookmarks)

RECURSIVE SumCounts(_)
SumCounts(sources) ==
    IF Len(sources) = 0 THEN 0 ELSE Head(sources).Count + SumCounts(Tail(sources))

\* ------------------------------------------------------------------------
\* pkg/adapter: registry
\* ------------------------------------------------------------------------
\* The spelling of the names the registry is asked to hold or to look up.
Spelling(name) ==
    CASE name = "brave"    -> <<"b","r","a","v","e">>
      [] name = "chrome"   -> <<"c","h","r","o","m","e">>
      [] name = "chromium" -> <<"c","h","r","o","m","i","u","m">>
      [] name = "edge"     -> <<"e","d","g","e">>
      [] name = "firefox"  -> <<"f","i","r","e","f","o","x">>
      [] name = "opml"     -> <<"o","p","m","l">>
      [] name = "safari"   -> <<"s","a","f","a","r","i">>
      [] name = "json"     -> <<"j","s","o","n">>
      [] name = "markdown" -> <<"m","a","r","k","d","o","w","n">>
      [] name = "yaml"     -> <<"y","a","m","l">>
      [] name = "html"     -> <<"h","t","m","l">>
      [] name = "x"        -> <<"x">>

\* the byte of a lower-case letter
ByteOf(c) == 96 + (CHOOSE i \in 1..26 : LowerCase[i] = c)

\* a < b for Go strings: byte-wise lexicographic, a proper prefix first
RECURSIVE BytesLess(_, _)
BytesLess(a, b) ==
    IF Len(b) = 0 THEN FALSE
    ELSE IF Len(a) = 0 THEN TRUE
    ELSE IF ByteOf(Head(a)) # ByteOf(Head(b)) THEN ByteOf(Head(a)) < ByteOf(Head(b))
    ELSE BytesLess(Tail(a), Tail(b))

StringLess(a, b) == BytesLess(Spelling(a), Spelling(b))

\* sort.Strings over the keys collected from a map
RECURSIVE sortStrings(_)
sortStrings(names) ==
    IF names = {} THEN <<>>
    ELSE LET least == CHOOSE n \in names : \A m \in names \ {n} : StringLess(n, m)
         IN  << least >> \o sortStrings(names \ {least})

\* the registrations made by the init() functions of the input packages
StartupInputs ==
    [n \in {"chrome", "edge", "chromium", "brave", "firefox", "safari", "opml"} |-> n]

\* the registrations made by the init() functions of the output packages
StartupOutputs ==
    [n \in {"json", "markdown", "yaml", "opml", "html"} |-> n]

\* inputs[adapter.Name()] = adapter
Store_KeepFirst(registry, a) ==
    [n \in DOMAIN registry \cup {a.name} |->
        IF n \in DOMAIN registry THEN registry[n] ELSE a]

Store(registry, a) ==
    [n \in DOMAIN registry \cup {a.name} |-> IF n = a.name THEN a ELSE registry[n]]

\* adapter.GetInput / adapter.GetOutput: the adapter and whether it was found
NoAdapter == <<>>

GetInput(name) ==
    IF name \in DOMAIN inputs THEN [adapter |-> inputs[name], ok |-> TRUE]
    ELSE [adapter |-> NoAdapter, ok |-> FALSE]

GetOutput(name) ==
    IF name \in DOMAIN outputs THEN [adapter |-> outputs[name], ok |-> TRUE]
    ELSE [adapter |-> NoAdapter, ok |-> FALSE]

\* adapter.GetInput: found
GetInputOk(name) == GetInput(name).ok

\* adapter.GetOutput: found
GetOutputOk(name) == GetOutput(name).ok

\* adapter.ListInputs / adapter.ListOutputs: the registered names, sorted
ListInputs == sortStrings(DOMAIN inputs)

ListOutputs == sortStrings(DOMAIN outputs)

\* config.GetInputConfig(name).Enabled: only the six browsers have a
\* configuration entry, every other name gets the zero InputConfig
ConfigurableNames == {"chrome", "edge", "firefox", "safari", "chromium", "brave"}

InputEnabled(name) == name \in ConfigurableNames /\ name \in cfgEnabled

\* input.Adapter.Path of the adapter registered under name
PathOf(name) == "path:" \o name

\* ------------------------------------------------------------------------
\* What the sources do when the server or the pipeline calls them
\* ------------------------------------------------------------------------
MaxRead == 3      \* most records one Read call returns

sGitHub == <<"G","i","t","H","u","b">>
sDocs   == <<"D","o","c","s">>
sHub    == <<"H","u","b">>
sBar    == <<"B","a","r">>

\* the records the adapter registered under name can return
SourceRecords(name) ==
    IF name = "chrome"
    THEN { [Title |-> sGitHub, URL |-> <<"h",":","a">>, FolderPath |-> <<sBar>>,
            Source |-> name, Profile |-> "Default"],
           [Title |-> sDocs, URL |-> <<"j","s",":","a">>, FolderPath |-> <<sDev>>,
            Source |-> name, Profile |-> "Work"] }
    ELSE { [Title |-> sHub, URL |-> <<"h",":","a">>, FolderPath |-> <<>>,
            Source |-> name, Profile |-> "default"] }

\* one source, one visit: Available() false, Configure fails, Read fails,
\* or Read returns records
Outcomes(name) ==
    { [status |-> s, bookmarks |-> <<>>] :
          s \in {"unavailable", "config_error", "read_error"} }
    \cup { [status |-> "ok", bookmarks |-> b] :
              b \in SeqsUpTo(SourceRecords(name), MaxRead) }

\* the sources a visit of every registered input gets as far as asking
\* Available(): registered and enabled
Consulted == {n \in DOMAIN inputs : InputEnabled(n)}

OutcomeMaps == { o \in [Consulted -> UNION {Outcomes(n) : n \in Consulted}] :
                     \A n \in Consulted : o[n] \in Outcomes(n) }

\* getBookmarks consults the sources only when the cache is nil
SourcesAsked(c) == IF c = <<>> THEN OutcomeMaps ELSE { [n \in {} |-> n] }

\* The record of one visit that got as far as Configure: which source,
\* how the visit ended, how many records Read returned
Visit(name, out) == [name |-> name, status |-> out.status, n |-> Len(out.bookmarks)]

\* the visits of a walk over names, in order: a source is visited when it
\* is registered, enabled and reports Available()
VisitsOf(names, outs) ==
    LET visited == SelectSeq(names, LAMBDA n : /\ GetInputOk(n) /\ InputEnabled(n)
                                               /\ outs[n].status # "unavailable")
    IN  [i \in 1..Len(visited) |-> Visit(visited[i], outs[visited[i]])]

\* Read was invoked during the visit
ReadInvoked(v) == v.status \in {"read_error", "ok"}

\* ------------------------------------------------------------------------
\* pkg/mcp: Server.getBookmarks
\* ------------------------------------------------------------------------
\* one iteration of the loop over adapter.ListInputs()
ServerReadOne(coll, name, outs) ==
    IF ~ GetInputOk(name) THEN coll
    ELSE IF ~ InputEnabled(name) THEN coll
    ELSE IF outs[name].status = "unavailable" THEN coll
    ELSE IF outs[name].status = "config_error" THEN coll
    ELSE IF outs[name].status = "read_error" THEN coll
    ELSE IF Len(outs[name].bookmarks) > 0
    THEN Add(coll, outs[name].bookmarks,
             SourceInfo(name, outs[name].bookmarks[1].Profile, PathOf(name)))
    ELSE coll

RECURSIVE ServerReadLoop(_, _, _)
ServerReadLoop(names, outs, coll) ==
    IF Len(names) = 0 THEN coll
    ELSE ServerReadLoop(Tail(names), outs, ServerReadOne(coll, Head(names), outs))

\* getBookmarks(ctx, uri) with the cache as it is: the collection returned,
\* the cache afterwards, the visits made to the sources and the error
\* returned ("" for nil).  The uri is not consulted.
getBookmarks_NoStore(c, uri, outs) ==
    IF c # <<>>
    THEN [collection |-> c[1], cache |-> c, visits |-> <<>>, err |-> ""]
    ELSE LET coll == ServerReadLoop(ListInputs, outs, NewCollection)
         IN  [collection |-> coll, cache |-> c,
              visits |-> VisitsOf(ListInputs, outs), err |-> ""]

getBookmarks_DropsCache(c, uri, outs) ==
    IF c # <<>>
    THEN [collection |-> c[1], cache |-> <<>>, visits |-> <<>>, err |-> ""]
    ELSE LET coll == ServerReadLoop(ListInputs, outs, NewCollection)
         IN  [collection |-> coll, cache |-> <<coll>>,
              visits |-> VisitsOf(ListInputs, outs), err |-> ""]

getBookmarks_FailsWhenEmpty(c, uri, outs) ==
    IF c # <<>>
    THEN [collection |-> c[1], cache |-> c, visits |-> <<>>, err |-> ""]
    ELSE LET coll == ServerReadLoop(ListInputs, outs, NewCollection)
         IN  IF Count(coll) = 0
             THEN [collection |-> coll, cache |-> c,
                   visits |-> VisitsOf(ListInputs, outs), err |-> "no bookmarks found"]
             ELSE [collection |-> coll, cache |-> <<coll>>,
                   visits |-> VisitsOf(ListInputs, outs), err |-> ""]

getBookmarks(c, uri, outs) ==
    IF c # <<>>
    THEN [collection |-> c[1], cache |-> c, visits |-> <<>>, err |-> ""]
    ELSE LET coll == ServerReadLoop(ListInputs, outs, NewCollection)
         IN  [collection |-> coll, cache |-> <<coll>>,
              visits |-> VisitsOf(ListInputs, outs), err |-> ""]

\* ------------------------------------------------------------------------
\* pkg/mcp: protocol types and handlers
\* ------------------------------------------------------------------------
CodeMethodNotFound == -32601
CodeInvalidParams  == -32602
CodeInternal       == -32000

NoResult == [kind |-> "none"]
NoError  == [Code |-> 0, Message |-> ""]

Response(id, result) == [ID |-> id, Result |-> result, Error |-> NoError]

errorResponse(id, code, message) ==
    [ID |-> id, Result |-> NoResult, Error |-> [Code |-> code, Message |-> message]]

\* handleRequest, default case
methodNotFound_AsInvalidParams(r) ==
    errorResponse(r.ID, CodeInvalidParams, "Method not found")

methodNotFound(r) == errorResponse(r.ID, CodeMethodNotFound, "Method not found")

\* the error of a handler that rejects its params, its arguments or the
\* tool name
invalidParams_AsInternal(r, message) == errorResponse(r.ID, CodeInternal, message)

invalidParams(r, message) == errorResponse(r.ID, CodeInvalidParams, message)

\* json.Unmarshal of a raw params / arguments payload into the handler's
\* struct succeeds only for a JSON object (or null) of the right field types
UnmarshalOk(raw) == raw.kind = "object"

\* output.Adapter.Render with output.DefaultRenderOptions(): what is
\* rendered, without the generation timestamp
Render(format, coll) ==
    [format |-> format, Bookmarks |-> coll.Bookmarks,
     Sources |-> coll.Sources, Total |-> Count(coll)]

\* containsIgnoreCase / containsIgnoreCaseImpl / equalIgnoreCase
equalIgnoreCase_CaseSensitive(a, b) ==
    /\ Len(a) = Len(b)
    /\ \A i \in 1..Len(a) : a[i] = b[i]

equalIgnoreCase(a, b) ==
    /\ Len(a) = Len(b)
    /\ \A i \in 1..Len(a) : ToLowerChar(a[i]) = ToLowerChar(b[i])

containsIgnoreCaseImpl(s, substr) ==
    \E i \in 0..(Len(s) - Len(substr)) :
        equalIgnoreCase(SubSeq(s, i + 1, i + Len(substr)), substr)

containsIgnoreCase(s, substr) ==
    /\ Len(s) >= Len(substr)
    /\ \/ s = substr
       \/ Len(substr) = 0
       \/ (Len(s) > 0 /\ containsIgnoreCaseImpl(s, substr))

handleInitialize(r) ==
    Response(r.ID, [kind |-> "initialize", protocolVersion |-> "2024-11-05",
                    serverName |-> "favs"])

\* handleResourcesList: two fixed resources, then one per registered input
\* that reports Available()
handleResourcesList(r, available) ==
    Response(r.ID,
        [kind |-> "resources",
         uris |-> <<"favs://all", "favs://markdown">>
                  \o [i \in 1..Len(SelectSeq(ListInputs, LAMBDA n : n \in available))
                        |-> "favs://" \o SelectSeq(ListInputs, LAMBDA n : n \in available)[i]]])

handleToolsList(r) ==
    Response(r.ID, [kind |-> "tools", names |-> <<"sync_bookmarks", "search_bookmarks">>])

\* handleResourcesRead after params decoded: the response for the
\* collection getBookmarks returned
ResourcesReadResponse(r, coll, err) ==
    LET uri == r.Params.URI
        format == IF uri = "favs://markdown" THEN "markdown" ELSE "json"
    IN  IF err # "" THEN errorResponse(r.ID, CodeInternal, err)
        ELSE IF ~ GetOutputOk(format)
        THEN errorResponse(r.ID, CodeInternal, "Output adapter not found")
        ELSE Response(r.ID,
                [kind |-> "contents", uri |-> uri,
                 mimeType |-> IF format = "markdown" THEN "text/markdown"
                              ELSE "application/json",
                 text |-> Render(format, coll)])

\* toolSyncBookmarks after the reload
SyncResponse(r, coll, err) ==
    IF err # "" THEN errorResponse(r.ID, CodeInternal, err)
    ELSE Response(r.ID, [kind |-> "synced", bookmarks |-> Count(coll),
                         sources |-> Len(coll.Sources)])

\* toolSearchBookmarks after arguments decoded
SearchResponse(r, coll, err) ==
    LET query == r.Params.Arguments.Query
        matches == SelectSeq(coll.Bookmarks,
                      LAMBDA b : containsIgnoreCase(b.Title, query)
                                 \/ containsIgnoreCase(b.URL, query))
    IN  IF err # "" THEN errorResponse(r.ID, CodeInternal, err)
        ELSE Response(r.ID,
            [kind |-> "matches", found |-> Len(matches),
             results |-> [i \in 1..Len(matches) |->
                             [title |-> matches[i].Title, url |-> matches[i].URL]]])

\* ------------------------------------------------------------------------
\* pkg/mcp: the cache operations of the request handlers, step by step at
\* the granularity of Server.cacheMu, for handlers that run in parallel.
\* A call is either one that only needs the bookmarks (resources/read,
\* search_bookmarks: getBookmarks) or sync_bookmarks (toolSyncBookmarks:
\* invalidate, then getBookmarks).
\* ------------------------------------------------------------------------
MaxCalls == 2

Handlers == {1, 2}

HandlersIdle ==
    /\ cacheMu = [writer |-> FALSE, readers |-> 0]
    /\ hpc = [h \in Handlers |-> "idle"]
    /\ hCollection = [h \in Handlers |-> <<>>]
    /\ hCalls = [h \in Handlers |-> 0]
    /\ hReadAt = [h \in Handlers |-> 0]
    /\ nInvalidations = 0 /\ cacheReadAt = 0 /\ walksSinceEmpty = 0

\* what the sources return to one walk: every consulted source answers
\* with one record
WalkOutcomes ==
    { o \in OutcomeMaps :
          \A n \in Consulted : o[n].status = "ok" /\ Len(o[n].bookmarks) = 1 }

\* everything of the server but its cache
serverRunVars == <<spc, decErr, req, resp, nDecoded, nSkipped, nResp, nErrors,
                   afterSkip, cancelled, retErr, served>>

\* sync.RWMutex
LockFree == ~ cacheMu.writer /\ cacheMu.readers = 0

\* a handler starts on a call
BeginCall(h) ==
    /\ hpc[h] = "idle" /\ hCalls[h] < MaxCalls
    /\ \E op \in {"getBookmarks", "toolSyncBookmarks"} :
           hpc' = [hpc EXCEPT ![h] = IF op = "toolSyncBookmarks" THEN "s_lock" ELSE "rlock"]
    /\ hCalls' = [hCalls EXCEPT ![h] = @ + 1]
    /\ hCollection' = [hCollection EXCEPT ![h] = <<>>]
    /\ UNCHANGED <<cacheMu, hReadAt, nInvalidations, cacheReadAt, walksSinceEmpty, cache>>
    /\ UNCHANGED <<filterVars, sharedVars, syncVars, serverRunVars, visits, readerVars>>

\* toolSyncBookmarks: s.cacheMu.Lock()
InvalidateLock(h) ==
    /\ hpc[h] = "s_lock" /\ LockFree
    /\ cacheMu' = [cacheMu EXCEPT !.writer = TRUE]
    /\ hpc' = [hpc EXCEPT ![h] = "s_clear"]
    /\ UNCHANGED <<hCollection, hCalls, hReadAt, nInvalidations, cacheReadAt,
                   walksSinceEmpty, cache>>
    /\ UNCHANGED <<filterVars, sharedVars, syncVars, serverRunVars, visits, readerVars>>

\* toolSyncBookmarks: s.cache = nil; s.cacheMu.Unlock(); then getBookmarks
Invalidate(h) ==
    /\ hpc[h] = "s_clear"
    /\ cache' = <<>>
    /\ cacheMu' = [cacheMu EXCEPT !.writer = FALSE]
    /\ nInvalidations' = nInvalidations + 1
    /\ walksSinceEmpty' = IF cache # <<>> THEN 0 ELSE walksSinceEmpty
    /\ hpc' = [hpc EXCEPT ![h] = "rlock"]
    /\ UNCHANGED <<hCollection, hCalls, hReadAt, cacheReadAt>>
    /\ UNCHANGED <<filterVars, sharedVars, syncVars, serverRunVars, visits, readerVars>>

\* getBookmarks: s.cacheMu.RLock()
CheckLock(h) ==
    /\ hpc[h] = "rlock" /\ ~ cacheMu.writer
    /\ cacheMu' = [cacheMu EXCEPT !.readers = @ + 1]
    /\ hpc' = [hpc EXCEPT ![h] = "check"]
    /\ UNCHANGED <<hCollection, hCalls, hReadAt, nInvalidations, cacheReadAt,
                   walksSinceEmpty, cache>>
    /\ UNCHANGED <<filterVars, sharedVars, syncVars, serverRunVars, visits, readerVars>>

\* getBookmarks: if s.cache != nil { return cached }; s.cacheMu.RUnlock()
Check(h) ==
    /\ hpc[h] = "check"
    /\ cacheMu' = [cacheMu EXCEPT !.readers = @ - 1]
    /\ IF cache # <<>>
       THEN /\ hCollection' = [hCollection EXCEPT ![h] = cache]
            /\ hpc' = [hpc EXCEPT ![h] = "idle"]
       ELSE /\ hpc' = [hpc EXCEPT ![h] = "walk"]
            /\ UNCHANGED hCollection
    /\ UNCHANGED <<hCalls, hReadAt, nInvalidations, cacheReadAt, walksSinceEmpty, cache>>
    /\ UNCHANGED <<filterVars, sharedVars, syncVars, serverRunVars, visits, readerVars>>

\* getBookmarks: the loop over adapter.ListInputs(), no lock held
Walk(h) ==
    /\ hpc[h] = "walk"
    /\ \E outs \in WalkOutcomes :
           hCollection' = [hCollection EXCEPT
                               ![h] = <<ServerReadLoop(ListInputs, outs, NewCollection)>>]
    /\ hReadAt' = [hReadAt EXCEPT ![h] = nInvalidations]
    /\ walksSinceEmpty' = walksSinceEmpty + 1
    /\ hpc' = [hpc EXCEPT ![h] = "lock"]
    /\ UNCHANGED <<cacheMu, hCalls, nInvalidations, cacheReadAt, cache>>
    /\ UNCHANGED <<filterVars, sharedVars, syncVars, serverRunVars, visits, readerVars>>

\* getBookmarks: s.cacheMu.Lock()
StoreLock(h) ==
    /\ hpc[h] = "lock" /\ LockFree
    /\ cacheMu' = [cacheMu EXCEPT !.writer = TRUE]
    /\ hpc' = [hpc EXCEPT ![h] = "store"]
    /\ UNCHANGED <<hCollection, hCalls, hReadAt, nInvalidations, cacheReadAt,
                   walksSinceEmpty, cache>>
    /\ UNCHANGED <<filterVars, sharedVars, syncVars, serverRunVars, visits, readerVars>>

\* getBookmarks: s.cache = collection; s.cacheMu.Unlock(); return
StoreCache(h) ==
    /\ hpc[h] = "store"
    /\ cache' = hCollection[h]
    /\ cacheReadAt' = hReadAt[h]
    /\ cacheMu' = [cacheMu EXCEPT !.writer = FALSE]
    /\ hpc' = [hpc EXCEPT ![h] = "idle"]
    /\ UNCHANGED <<hCollection, hCalls, hReadAt, nInvalidations, walksSinceEmpty>>
    /\ UNCHANGED <<filterVars, sharedVars, syncVars, serverRunVars, visits, readerVars>>

\* ------------------------------------------------------------------------
\* pkg/input: the source readers.  Each turns what it decoded from the
\* browser's file or database into []Bookmark.
\* ------------------------------------------------------------------------
MaxChildren == 2
MaxRows == 2

uHA == <<"h", ":", "a">>

ReadersIdle ==
    /\ rpc = "idle" /\ rRaw = Nil /\ rBookmarks = <<>>
    /\ rRow = 0 /\ rSeen = {} /\ currentParent = 0 /\ folderPath = <<>> /\ pathIter = 0

\* ---- chromium (chrome, chromium, edge, brave) ----
chromiumNode(type, name, url, children) ==
    [Type |-> type, Name |-> name, URL |-> url, Children |-> children]

\* parseFolder(node, path, profile, bookmarks): the records appended
RECURSIVE parseFolder(_, _, _, _)
RECURSIVE parseFolderChildren(_, _, _, _)
parseFolderChildren(children, currentPath, profile, browser) ==
    IF Len(children) = 0 THEN <<>>
    ELSE LET child == Head(children)
             here  == CASE child.Type = "url" ->
                               << [Title |-> child.Name, URL |-> child.URL,
                                   FolderPath |-> currentPath,
                                   Source |-> browser, Profile |-> profile] >>
                        [] child.Type = "folder" ->
                               parseFolder(child, currentPath, profile, browser)
                        [] OTHER -> <<>>
         IN  here \o parseFolderChildren(Tail(children), currentPath, profile, browser)

parseFolder(node, path, profile, browser) ==
    LET currentPath == IF node.Name # <<>> THEN Append(path, node.Name) ELSE path
    IN  parseFolderChildren(node.Children, currentPath, profile, browser)

\* readFromPath: every root of type "folder", in the order the range over
\* the roots map yields them
RECURSIVE readFromPath(_, _, _)
readFromPath(roots, profile, browser) ==
    IF Len(roots) = 0 THEN <<>>
    ELSE (IF Head(roots).Type = "folder"
          THEN parseFolder(Head(roots), <<>>, profile, browser)
          ELSE <<>>)
         \o readFromPath(Tail(roots), profile, browser)

ChromiumLeaves ==
    { chromiumNode("url", sGitHub, uHA, <<>>),
      chromiumNode("url", sDocs, <<>>, <<>>),
      chromiumNode("separator", <<>>, <<>>, <<>>) }

ChromiumFolders ==
    { chromiumNode("folder", sDev, <<>>, c) : c \in SeqsUpTo(ChromiumLeaves, MaxChildren) }

ChromiumRoots ==
    { chromiumNode("folder", n, <<>>, c) :
          n \in {<<>>, sBar},
          c \in SeqsUpTo(ChromiumLeaves \cup ChromiumFolders, MaxChildren) }

\* the Bookmarks file decoded: the roots in range order
ChromiumPool ==
    { <<r>> : r \in ChromiumRoots }
    \cup { <<r, chromiumNode("folder", <<>>, <<>>, <<l>>)>> :
               r \in {chromiumNode("url", sDocs, uHA, <<>>),
                      chromiumNode("folder", sBar, <<>>, <<>>)},
               l \in ChromiumLeaves }

\* ---- safari ----
safariBookmark(type, title, urlString, dict, children) ==
    [WebBookmarkType |-> type, Title |-> title, URLString |-> urlString,
     URIDictionary |-> dict, Children |-> children]

\* m[k] of a Go map[string]string: "" for a missing key
MapGet(m, k) == IF k \in DOMAIN m THEN m[k] ELSE <<>>

RECURSIVE parseBookmarks(_, _)
RECURSIVE parseBookmarksChildren(_, _)
parseBookmarksChildren(children, path) ==
    IF Len(children) = 0 THEN <<>>
    ELSE parseBookmarks(Head(children), path)
         \o parseBookmarksChildren(Tail(children), path)

parseBookmarks(node, path) ==
    CASE node.WebBookmarkType = "WebBookmarkTypeLeaf" ->
             LET url    == IF node.URLString = <<>> /\ node.URIDictionary # <<>>
                           THEN MapGet(node.URIDictionary[1], "")
                           ELSE node.URLString
                 title1 == IF node.Title = <<>> /\ node.URIDictionary # <<>>
                           THEN MapGet(node.URIDictionary[1], "title")
                           ELSE node.Title
                 title  == IF title1 = <<>> THEN url ELSE title1
             IN  IF url # <<>>
                 THEN << [Title |-> title, URL |-> url, FolderPath |-> path,
                          Source |-> "safari", Profile |-> "default"] >>
                 ELSE <<>>
      [] node.WebBookmarkType = "WebBookmarkTypeList" ->
             LET currentPath == IF node.Title # <<>> THEN Append(path, node.Title)
                                ELSE path
             IN  parseBookmarksChildren(node.Children, currentPath)
      [] OTHER -> parseBookmarksChildren(node.Children, path)

\* safari.Adapter.Read
safariRead(raw) ==
    IF raw.goos # "darwin" THEN <<>>
    ELSE parseBookmarks(raw.root, <<>>)

SafariLeaves ==
    { safariBookmark("WebBookmarkTypeLeaf", sHub, uHA, <<>>, <<>>),
      safariBookmark("WebBookmarkTypeLeaf", <<>>, <<>>,
                     << [k \in {"", "title"} |-> IF k = "" THEN uHA ELSE sDocs] >>, <<>>),
      safariBookmark("WebBookmarkTypeLeaf", sHub, <<>>,
                     << [k \in {"title"} |-> sHub] >>, <<>>),
      safariBookmark("WebBookmarkTypeLeaf", sDocs, <<>>, <<>>, <<>>) }

SafariLists ==
    { safariBookmark(t, sDev, <<>>, <<>>, c) :
          t \in {"WebBookmarkTypeList", "WebBookmarkTypeProxy"},
          c \in SeqsUpTo(SafariLeaves, 1) }

SafariPool ==
    { [goos |-> g, root |-> safariBookmark("WebBookmarkTypeList", <<>>, <<>>, <<>>, c)] :
          g \in {"darwin"}, c \in SeqsUpTo(SafariLeaves \cup SafariLists, MaxChildren) }
    \cup { [goos |-> "linux",
            root |-> safariBookmark("WebBookmarkTypeList", <<>>, <<>>, <<>>, <<l>>)] :
               l \in SafariLeaves }

\* ---- opml ----
opmlOutline(text, title, htmlURL, xmlURL, children) ==
    [Text |-> text, Title |-> title, HTMLURL |-> htmlURL, XMLURL |-> xmlURL,
     Children |-> children]

RECURSIVE walkOPML(_, _)
walkOPML(outlines, path) ==
    IF Len(outlines) = 0 THEN <<>>
    ELSE LET o     == Head(outlines)
             title == IF o.Text = <<>> THEN o.Title ELSE o.Text
             url   == IF o.HTMLURL = <<>> THEN o.XMLURL ELSE o.HTMLURL
             here  == IF Len(o.Children) > 0
                      THEN walkOPML(o.Children, Append(path, title))
                      ELSE IF url = <<>> THEN <<>>
                      ELSE << [Title |-> title, URL |-> url, FolderPath |-> path,
                               Source |-> "opml", Profile |-> "import"] >>
         IN  here \o walkOPML(Tail(outlines), path)

OPMLLeaves ==
    { opmlOutline(sHub, <<>>, uHA, <<>>, <<>>),
      opmlOutline(<<>>, sDocs, <<>>, <<"h", ":", "x">>, <<>>),
      opmlOutline(sGitHub, <<>>, <<>>, <<>>, <<>>) }

OPMLFolders ==
    { opmlOutline(sDev, <<>>, uHA, <<>>, c) : c \in SeqsUpTo(OPMLLeaves, 1) \ {<<>>} }

OPMLPool == SeqsUpTo(OPMLLeaves \cup OPMLFolders, MaxChildren)

\* ---- firefox ----
tagsRootID == 4

\* isUnderTagsRoot(folderID, folders, tagsRootID)
RECURSIVE isUnderTagsRootFrom(_, _, _, _)
isUnderTagsRootFrom(current, folders, tagsRoot, i) ==
    IF i >= 10 THEN FALSE
    ELSE IF current = tagsRoot THEN TRUE
    ELSE IF current \notin DOMAIN folders THEN FALSE
    ELSE isUnderTagsRootFrom(folders[current].Parent, folders, tagsRoot, i + 1)

isUnderTagsRoot(folderID, folders, tagsRoot) ==
    isUnderTagsRootFrom(folderID, folders, tagsRoot, 0)

Folder(parent, title) == [Parent |-> parent, Title |-> title]

\* moz_bookmarks WHERE type = 2, as the folders map: id 1 is the root,
\* which is a row of the table only in the first two
FolderTables ==
    { (1 :> Folder(0, <<>>)) @@ (2 :> Folder(1, sBar)) @@ (3 :> Folder(2, sDev))
          @@ (4 :> Folder(1, <<"t">>)) @@ (5 :> Folder(4, <<"x">>)),
      (1 :> Folder(0, <<>>)) @@ (2 :> Folder(1, <<>>)) @@ (3 :> Folder(1, sDev)),
      (2 :> Folder(2, <<>>)) @@ (3 :> Folder(1, sDev)),
      (2 :> Folder(3, <<>>)) @@ (3 :> Folder(2, <<>>)) @@ (5 :> Folder(4, <<"x">>)) }

\* the rows of the bookmark query
FirefoxRows ==
    { [title |-> sHub, url |-> uHA, parent |-> 2],
      [title |-> <<>>, url |-> uHA, parent |-> 3],
      [title |-> sDocs, url |-> <<"j", "s", ":", "a">>, parent |-> 5],
      [title |-> sGitHub, url |-> <<"h", ":", "x">>, parent |-> 9] }

FirefoxPool ==
    { [folders |-> f, rows |-> r] :
          f \in FolderTables, r \in SeqsUpTo(FirefoxRows, MaxRows) }

\* ---- one Read ----
ReadChromium ==
    /\ rpc = "chromium"
    /\ rBookmarks' = readFromPath(rRaw, "Default", "chrome")
    /\ rpc' = "done"
    /\ UNCHANGED <<rRaw, rRow, rSeen, currentParent, folderPath, pathIter>>
    /\ UNCHANGED <<filterVars, sharedVars, visits, serverVars, syncVars, handlerVars>>

ReadSafari ==
    /\ rpc = "safari"
    /\ rBookmarks' = safariRead(rRaw)
    /\ rpc' = "done"
    /\ UNCHANGED <<rRaw, rRow, rSeen, currentParent, folderPath, pathIter>>
    /\ UNCHANGED <<filterVars, sharedVars, visits, serverVars, syncVars, handlerVars>>

ReadOPML ==
    /\ rpc = "opml"
    /\ rBookmarks' = walkOPML(rRaw, <<>>)
    /\ rpc' = "done"
    /\ UNCHANGED <<rRaw, rRow, rSeen, currentParent, folderPath, pathIter>>
    /\ UNCHANGED <<filterVars, sharedVars, visits, serverVars, syncVars, handlerVars>>

\* readFromDB: one iteration of `for rows.Next()` up to the folder path
\* loop, or the return after the last row
FirefoxRow ==
    /\ rpc = "fx_rows"
    /\ IF rRow > Len(rRaw.rows)
       THEN /\ rpc' = "done"
            /\ UNCHANGED <<rRow, rSeen, currentParent, folderPath, pathIter>>
       ELSE LET row == rRaw.rows[rRow]
            IN  IF isUnderTagsRoot(row.parent, rRaw.folders, tagsRootID)
                   \/ row.url \in rSeen
                THEN /\ rRow' = rRow + 1
                     /\ UNCHANGED <<rpc, rSeen, currentParent, folderPath, pathIter>>
                ELSE /\ rSeen' = rSeen \cup {row.url}
                     /\ currentParent' = row.parent
                     /\ folderPath' = <<>>
                     /\ pathIter' = 0
                     /\ rpc' = "fx_path"
                     /\ UNCHANGED rRow
    /\ UNCHANGED <<rRaw, rBookmarks>>
    /\ UNCHANGED <<filterVars, sharedVars, visits, serverVars, syncVars, handlerVars>>

\* readFromDB: one iteration of the folder path loop `for { ... }`; on
\* its break the bookmark is appended
FirefoxFolderPath ==
    /\ rpc = "fx_path"
    /\ IF currentParent \notin DOMAIN rRaw.folders
       THEN LET row == rRaw.rows[rRow]
            IN  /\ rBookmarks' = Append(rBookmarks,
                       [Title |-> IF row.title = <<>> THEN row.url ELSE row.title,
                        URL |-> row.url, FolderPath |-> folderPath,
                        Source |-> "firefox", Profile |-> "default"])
                /\ rRow' = rRow + 1
                /\ rpc' = "fx_rows"
                /\ UNCHANGED <<currentParent, folderPath, pathIter>>
       ELSE LET folder == rRaw.folders[currentParent]
            IN  /\ folderPath' = IF folder.Title # <<>>
                                 THEN <<folder.Title>> \o folderPath
                                 ELSE folderPath
                /\ currentParent' = folder.Parent
                /\ pathIter' = (pathIter + 1) % 2
                /\ UNCHANGED <<rpc, rRow, rBookmarks>>
    /\ UNCHANGED <<rRaw, rSeen>>
    /\ UNCHANGED <<filterVars, sharedVars, visits, serverVars, syncVars, handlerVars>>

\* ------------------------------------------------------------------------
\* Frames the client writes to stdin
\* ------------------------------------------------------------------------
MaxReqs == 2      \* frames the client sends before closing stdin

IdPool == {1, 2}

\* the raw "arguments" of a tools/call and the query json.Unmarshal leaves in
\* searchArgs: absent, not an object, an object without a "query" key, an
\* object with one
NoArguments == [kind |-> "absent", HasQuery |-> FALSE, Query |-> <<>>]

ArgumentsPool ==
    { NoArguments,
      [kind |-> "badtype", HasQuery |-> FALSE, Query |-> <<>>],
      [kind |-> "object", HasQuery |-> FALSE, Query |-> <<>>],
      [kind |-> "object", HasQuery |-> TRUE, Query |-> <<"g","i","t">>],
      [kind |-> "object", HasQuery |-> TRUE, Query |-> <<"H",":">>] }

NoParams == [kind |-> "absent", URI |-> "", Name |-> "", Arguments |-> NoArguments]

ReadParamsPool ==
    { NoParams,
      [NoParams EXCEPT !.kind = "badtype"] }
    \cup { [NoParams EXCEPT !.kind = "object", !.URI = u] :
              u \in {"favs://all", "favs://markdown", "favs://chrome", ""} }

CallParamsPool ==
    { NoParams,
      [NoParams EXCEPT !.kind = "badtype"],
      [NoParams EXCEPT !.kind = "object", !.Name = "sync_bookmarks"],
      [NoParams EXCEPT !.kind = "object", !.Name = "export_bookmarks"] }
    \cup { [NoParams EXCEPT !.kind = "object", !.Name = "search_bookmarks",
                            !.Arguments = a] : a \in ArgumentsPool }

Request(id, method, params) == [ID |-> id, Method |-> method, Params |-> params]

\* the frames that decode into a Request
RequestPool ==
    { Request(id, m, NoParams) :
          id \in IdPool, m \in {"initialize", "resources/list", "tools/list", "ping", ""} }
    \cup { Request(id, "resources/read", p) : id \in IdPool, p \in ReadParamsPool }
    \cup { Request(id, "tools/call", p) : id \in IdPool, p \in CallParamsPool }

NoRequest == Request(0, "", NoParams)
NoResponse == [ID |-> 0, Result |-> NoResult, Error |-> NoError]

\* what Available() answers to resources/list
AvailablePool == { {}, {"chrome"}, {"chrome", "firefox", "opml"}, DOMAIN StartupInputs }

\* ------------------------------------------------------------------------
\* pkg/mcp: Server.Run
\* ------------------------------------------------------------------------
ServerIdle ==
    /\ spc = "idle" /\ cache = <<>> /\ decErr = "" /\ req = NoRequest
    /\ resp = NoResponse /\ nDecoded = 0 /\ nSkipped = 0 /\ nResp = 0 /\ nErrors = 0
    /\ afterSkip = "" /\ cancelled = FALSE /\ retErr = ""
    /\ served = <<>>

\* the enabled flags of the configuration file
ConfigPool == { {}, {"chrome"}, {"chrome", "firefox"}, {"firefox", "edge"} }

\* NewServer(cfg), then Run entered
InitServer ==
    /\ inputs = StartupInputs /\ outputs = StartupOutputs /\ regLog = <<>>
    /\ cfgEnabled \in ConfigPool
    /\ visits = <<>>
    /\ spc = "loop" /\ cache = <<>> /\ decErr = "" /\ req = NoRequest
    /\ resp = NoResponse /\ nDecoded = 0 /\ nSkipped = 0 /\ nResp = 0 /\ nErrors = 0
    /\ afterSkip = "" /\ cancelled = FALSE /\ retErr = ""
    /\ served = <<>>

\* SIGINT / SIGTERM: the signal goroutine cancels the context
Cancel ==
    /\ spc \in {"loop", "decode", "handle", "sync_reload"}
    /\ ~ cancelled
    /\ cancelled' = TRUE
    /\ UNCHANGED <<spc, cache, decErr, req, resp, nDecoded, nSkipped, nResp, nErrors,
                   afterSkip, retErr, visits, served>>
    /\ UNCHANGED <<filterVars, sharedVars, syncVars, handlerVars, readerVars>>

\* top of the loop: select on ctx.Done()
\* (req and resp are locals of one iteration)
LoopTop ==
    /\ spc = "loop"
    /\ IF cancelled
       THEN spc' = "returned" /\ retErr' = "context canceled"
       ELSE spc' = "decode" /\ retErr' = retErr
    /\ req' = NoRequest /\ resp' = NoResponse /\ visits' = <<>>
    /\ UNCHANGED <<cache, decErr, nDecoded, nSkipped, nResp, nErrors,
                   afterSkip, cancelled, served>>
    /\ UNCHANGED <<filterVars, sharedVars, syncVars, handlerVars, readerVars>>

\* decoder.Decode(&req) returns io.EOF: stdin is closed at a frame boundary
DecodeEOF ==
    /\ spc = "decode" /\ decErr = ""
    /\ decErr' = "EOF"
    /\ spc' = "returned" /\ retErr' = ""
    /\ UNCHANGED <<cache, req, resp, nDecoded, nSkipped, nResp, nErrors,
                   afterSkip, cancelled, visits, served>>
    /\ UNCHANGED <<filterVars, sharedVars, syncVars, handlerVars, readerVars>>

\* Decode reads a complete JSON value that does not unmarshal into Request
\* (a value of the wrong type): the error is returned, the decoder stays
\* usable, the loop continues
DecodeTypeError_Returns ==
    /\ spc = "decode" /\ decErr = ""
    /\ nDecoded + nSkipped < MaxReqs
    /\ nSkipped' = nSkipped + 1
    /\ afterSkip' = "skipped"
    /\ spc' = "returned"
    /\ retErr' = "decode error"
    /\ UNCHANGED <<cache, decErr, req, resp, nDecoded, nResp, nErrors,
                   cancelled, visits, served>>
    /\ UNCHANGED <<filterVars, sharedVars, syncVars, handlerVars, readerVars>>

DecodeTypeError ==
    /\ spc = "decode" /\ decErr = ""
    /\ nDecoded + nSkipped < MaxReqs
    /\ nSkipped' = nSkipped + 1
    /\ afterSkip' = "skipped"
    /\ spc' = "loop"
    /\ UNCHANGED <<cache, decErr, req, resp, nDecoded, nResp, nErrors,
                   cancelled, retErr, visits, served>>
    /\ UNCHANGED <<filterVars, sharedVars, syncVars, handlerVars, readerVars>>

\* Decode meets bytes that are not JSON: the decoder records the syntax
\* error, the loop continues
DecodeSyntaxError ==
    /\ spc = "decode" /\ decErr = ""
    /\ nDecoded + nSkipped < MaxReqs
    /\ decErr' = "syntax"
    /\ nSkipped' = nSkipped + 1
    /\ afterSkip' = "skipped"
    /\ spc' = "loop"
    /\ UNCHANGED <<cache, req, resp, nDecoded, nResp, nErrors,
                   cancelled, retErr, visits, served>>
    /\ UNCHANGED <<filterVars, sharedVars, syncVars, handlerVars, readerVars>>

\* Decode on a decoder that has recorded a syntax error returns that error
\* again without reading; it is not io.EOF, the loop continues
DecodeSticky ==
    /\ spc = "decode" /\ decErr = "syntax"
    /\ afterSkip' = "stuck"
    /\ spc' = "loop"
    /\ UNCHANGED <<cache, decErr, req, resp, nDecoded, nSkipped, nResp, nErrors,
                   cancelled, retErr, visits, served>>
    /\ UNCHANGED <<filterVars, sharedVars, syncVars, handlerVars, readerVars>>

\* Decode reads a frame that unmarshals into Request
DecodeRequest ==
    /\ spc = "decode" /\ decErr = ""
    /\ nDecoded + nSkipped < MaxReqs
    /\ \E r \in RequestPool : req' = r
    /\ nDecoded' = nDecoded + 1
    /\ afterSkip' = (IF afterSkip = "skipped" THEN "request" ELSE "")
    /\ spc' = "handle"
    /\ UNCHANGED <<cache, decErr, resp, nSkipped, nResp, nErrors,
                   cancelled, retErr, visits, served>>
    /\ UNCHANGED <<filterVars, sharedVars, syncVars, handlerVars, readerVars>>

\* encoder.Encode(resp), back to the top of the loop
Respond(r) ==
    /\ resp' = r
    /\ nResp' = nResp + 1
    /\ nErrors' = (IF r.Error # NoError THEN nErrors + 1 ELSE nErrors)
    /\ spc' = "loop"

HandleInitialize ==
    /\ spc = "handle" /\ req.Method = "initialize"
    /\ Respond(handleInitialize(req))
    /\ UNCHANGED <<cache, decErr, req, nDecoded, nSkipped,
                   afterSkip, cancelled, retErr, visits, served>>
    /\ UNCHANGED <<filterVars, sharedVars, syncVars, handlerVars, readerVars>>

HandleResourcesList ==
    /\ spc = "handle" /\ req.Method = "resources/list"
    /\ \E available \in AvailablePool : Respond(handleResourcesList(req, available))
    /\ UNCHANGED <<cache, decErr, req, nDecoded, nSkipped,
                   afterSkip, cancelled, retErr, visits, served>>
    /\ UNCHANGED <<filterVars, sharedVars, syncVars, handlerVars, readerVars>>

HandleToolsList ==
    /\ spc = "handle" /\ req.Method = "tools/list"
    /\ Respond(handleToolsList(req))
    /\ UNCHANGED <<cache, decErr, req, nDecoded, nSkipped,
                   afterSkip, cancelled, retErr, visits, served>>
    /\ UNCHANGED <<filterVars, sharedVars, syncVars, handlerVars, readerVars>>

\* handleRequest, default case
HandleUnknownMethod ==
    /\ spc = "handle"
    /\ req.Method \notin {"initialize", "resources/list", "resources/read",
                          "tools/list", "tools/call"}
    /\ Respond(methodNotFound(req))
    /\ UNCHANGED <<cache, decErr, req, nDecoded, nSkipped,
                   afterSkip, cancelled, retErr, visits, served>>
    /\ UNCHANGED <<filterVars, sharedVars, syncVars, handlerVars, readerVars>>

\* handleResourcesRead / handleToolsCall: params do not unmarshal
HandleInvalidParams ==
    /\ spc = "handle" /\ req.Method \in {"resources/read", "tools/call"}
    /\ ~ UnmarshalOk(req.Params)
    /\ Respond(invalidParams(req, "Invalid params"))
    /\ UNCHANGED <<cache, decErr, req, nDecoded, nSkipped,
                   afterSkip, cancelled, retErr, visits, served>>
    /\ UNCHANGED <<filterVars, sharedVars, syncVars, handlerVars, readerVars>>

HandleResourcesRead ==
    /\ spc = "handle" /\ req.Method = "resources/read"
    /\ UnmarshalOk(req.Params)
    /\ \E outs \in SourcesAsked(cache) :
          LET g == getBookmarks(cache, req.Params.URI, outs)
          IN  /\ cache' = g.cache
              /\ visits' = g.visits
              /\ served' = <<g.collection>>
              /\ Respond(ResourcesReadResponse(req, g.collection, g.err))
    /\ UNCHANGED <<decErr, req, nDecoded, nSkipped, afterSkip, cancelled, retErr>>
    /\ UNCHANGED <<filterVars, sharedVars, syncVars, handlerVars, readerVars>>

\* handleToolsCall, default case
HandleUnknownTool ==
    /\ spc = "handle" /\ req.Method = "tools/call"
    /\ UnmarshalOk(req.Params)
    /\ req.Params.Name \notin {"sync_bookmarks", "search_bookmarks"}
    /\ Respond(invalidParams(req, "Unknown tool"))
    /\ UNCHANGED <<cache, decErr, req, nDecoded, nSkipped,
                   afterSkip, cancelled, retErr, visits, served>>
    /\ UNCHANGED <<filterVars, sharedVars, syncVars, handlerVars, readerVars>>

\* toolSyncBookmarks, first critical section: s.cache = nil
SyncClear ==
    /\ spc = "handle" /\ req.Method = "tools/call"
    /\ UnmarshalOk(req.Params)
    /\ req.Params.Name = "sync_bookmarks"
    /\ cache' = <<>>
    /\ served' = <<>>
    /\ spc' = "sync_reload"
    /\ UNCHANGED <<decErr, req, resp, nDecoded, nSkipped, nResp, nErrors,
                   afterSkip, cancelled, retErr, visits>>
    /\ UNCHANGED <<filterVars, sharedVars, syncVars, handlerVars, readerVars>>

\* toolSyncBookmarks, the rest: getBookmarks and the summary
SyncReload ==
    /\ spc = "sync_reload"
    /\ \E outs \in SourcesAsked(cache) :
          LET g == getBookmarks(cache, "favs://all", outs)
          IN  /\ cache' = g.cache
              /\ visits' = g.visits
              /\ Respond(SyncResponse(req, g.collection, g.err))
    /\ UNCHANGED <<decErr, req, nDecoded, nSkipped, afterSkip, cancelled,
                   retErr, served>>
    /\ UNCHANGED <<filterVars, sharedVars, syncVars, handlerVars, readerVars>>

HandleSearchInvalid_ClearsCache ==
    /\ spc = "handle" /\ req.Method = "tools/call"
    /\ UnmarshalOk(req.Params)
    /\ req.Params.Name = "search_bookmarks"
    /\ ~ UnmarshalOk(req.Params.Arguments)
    /\ Respond(invalidParams(req, "Invalid search arguments"))
    /\ cache' = <<>>
    /\ UNCHANGED <<decErr, req, nDecoded, nSkipped,
                   afterSkip, cancelled, retErr, visits, served>>
    /\ UNCHANGED <<filterVars, sharedVars, syncVars, handlerVars, readerVars>>

\* toolSearchBookmarks: arguments do not unmarshal
HandleSearchInvalid ==
    /\ spc = "handle" /\ req.Method = "tools/call"
    /\ UnmarshalOk(req.Params)
    /\ req.Params.Name = "search_bookmarks"
    /\ ~ UnmarshalOk(req.Params.Arguments)
    /\ Respond(invalidParams(req, "Invalid search arguments"))
    /\ UNCHANGED <<cache, decErr, req, nDecoded, nSkipped,
                   afterSkip, cancelled, retErr, visits, served>>
    /\ UNCHANGED <<filterVars, sharedVars, syncVars, handlerVars, readerVars>>

HandleSearch ==
    /\ spc = "handle" /\ req.Method = "tools/call"
    /\ UnmarshalOk(req.Params)
    /\ req.Params.Name = "search_bookmarks"
    /\ UnmarshalOk(req.Params.Arguments)
    /\ \E outs \in SourcesAsked(cache) :
          LET g == getBookmarks(cache, "favs://all", outs)
          IN  /\ cache' = g.cache
              /\ visits' = g.visits
              /\ Respond(SearchResponse(req, g.collection, g.err))
    /\ UNCHANGED <<decErr, req, nDecoded, nSkipped, afterSkip, cancelled,
                   retErr, served>>
    /\ UNCHANGED <<filterVars, sharedVars, syncVars, handlerVars, readerVars>>

\* ------------------------------------------------------------------------
\* cmd: runSync, readPreferredInput, readAllInputs
\* ------------------------------------------------------------------------
inputPreference_Alphabetical ==
    <<"brave", "chrome", "chromium", "edge", "firefox", "safari">>

inputPreference == <<"chrome", "firefox", "edge", "safari", "chromium", "brave">>

NoFilterOptions ==
    [IncludeFolders |-> <<>>, ExcludeFolders |-> <<>>, ExcludeURLPatterns |-> <<>>,
     ExcludeProtocols |-> <<>>, WarnProtocols |-> <<>>,
     MaxURLLength |-> 0, WarnURLLength |-> 0]

\* cfg.Pipeline as the configuration file and the flags leave it
PipelinePool ==
    { [Filter |-> f, Deduplicate |-> d, Sort |-> FALSE] :
        f \in { NoFilterOptions,
                [NoFilterOptions EXCEPT !.ExcludeProtocols = <<sJs>>],
                [NoFilterOptions EXCEPT !.ExcludeURLPatterns = << <<"^","h">> >>],
                [NoFilterOptions EXCEPT !.ExcludeFolders = <<sBar>>] },
        d \in BOOLEAN }
    \cup { [Filter |-> NoFilterOptions, Deduplicate |-> FALSE, Sort |-> TRUE] }

SyncIdle ==
    /\ ppc = "idle" /\ allMode = FALSE /\ browserFlag = "" /\ profileFlag = ""
    /\ outputFormat = "" /\ cfgProfile = "" /\ cfgPipeline = Nil /\ pIdx = 0
    /\ asked = <<>>
    /\ collection = NewCollection /\ filterResult = EmptyFilterResult
    /\ filteredCollection = <<>> /\ rendered = <<>> /\ syncErr = ""

\* runSync up to "Collect bookmarks": configuration loaded, flags read,
\* an empty collection created
InitSync ==
    /\ inputs = StartupInputs /\ outputs = StartupOutputs /\ regLog = <<>>
    /\ cfgEnabled \in ConfigPool
    /\ visits = <<>>
    /\ ppc = "start"
    /\ allMode \in BOOLEAN
    /\ browserFlag \in (IF allMode THEN {""} ELSE {"", "firefox", "opml", "netscape"})
    /\ profileFlag \in (IF allMode THEN {""} ELSE {"", "Work"})
    /\ outputFormat \in {"json", "markdown", "csv"}
    /\ cfgProfile \in {"", "Profile 1"}
    /\ cfgPipeline \in PipelinePool
    /\ pIdx = 0 /\ asked = <<>>
    /\ collection = NewCollection /\ filterResult = EmptyFilterResult
    /\ filteredCollection = <<>> /\ rendered = <<>> /\ syncErr = ""

\* readPreferredInput: the adapter to read, "" when there is none
targetInput_ChecksEnabled(outs) ==
    IF browserFlag # ""
    THEN (IF GetInputOk(browserFlag) /\ InputEnabled(browserFlag)
             /\ outs[browserFlag].available
          THEN browserFlag ELSE "")
    ELSE LET eligible == SelectSeq(inputPreference,
                            LAMBDA n : /\ GetInputOk(n) /\ InputEnabled(n)
                                       /\ outs[n].status # "unavailable")
         IN  IF Len(eligible) > 0 THEN eligible[1] ELSE ""

targetInput(outs) ==
    IF browserFlag # ""
    THEN (IF GetInputOk(browserFlag) THEN browserFlag ELSE "")
    ELSE LET eligible == SelectSeq(inputPreference,
                            LAMBDA n : /\ GetInputOk(n) /\ InputEnabled(n)
                                       /\ outs[n].status # "unavailable")
         IN  IF Len(eligible) > 0 THEN eligible[1] ELSE ""

\* readPreferredInput: the Available() calls of the preference walk and
\* their answers, up to and including the first true one
AskedOf(outs) ==
    IF browserFlag # "" THEN <<>>
    ELSE LET cand == SelectSeq(inputPreference,
                               LAMBDA n : GetInputOk(n) /\ InputEnabled(n))
             isAvail(i) == outs[cand[i]].status # "unavailable"
             last == IF \E i \in 1..Len(cand) : isAvail(i)
                     THEN CHOOSE i \in 1..Len(cand) :
                              isAvail(i) /\ \A j \in 1..(i - 1) : ~ isAvail(j)
                     ELSE Len(cand)
         IN  [i \in 1..last |-> [name |-> cand[i], available |-> isAvail(i)]]

\* readPreferredInput: the profile the adapter is configured with
PreferredProfile ==
    IF profileFlag # "" THEN profileFlag
    ELSE IF cfgProfile = "" THEN "Default"
    ELSE cfgProfile

\* what the sources of readPreferredInput do: the preference walk asks the
\* registered and enabled ones for Available(); an adapter named by
\* --browser is configured and read without asking
\* (its outcome also says what Available() would have answered)
PreferredOutcomeMaps ==
    IF browserFlag = "" THEN OutcomeMaps
    ELSE IF ~ GetInputOk(browserFlag) THEN { [n \in {} |-> n] }
    ELSE { [n \in {browserFlag} |->
               [status |-> o.status, bookmarks |-> o.bookmarks, available |-> a]] :
              o \in {x \in Outcomes(browserFlag) : x.status # "unavailable"},
              a \in BOOLEAN }

\* the visit of the adapter named by --browser
ExplicitVisit(name, out) ==
    [name |-> name, status |-> out.status, n |-> Len(out.bookmarks),
     available |-> out.available]

\* runSync, single-source mode: readPreferredInput
ReadPreferred ==
    /\ ppc = "start" /\ ~ allMode
    /\ \E outs \in PreferredOutcomeMaps :
          LET t == targetInput(outs) IN
          /\ asked' = AskedOf(outs)
          /\ IF t = ""
             THEN /\ syncErr' = (IF browserFlag # "" THEN "unknown browser"
                                 ELSE "no available browser found")
                  /\ ppc' = "failed"
                  /\ UNCHANGED <<collection, visits>>
             ELSE /\ visits' = << IF browserFlag # "" THEN ExplicitVisit(t, outs[t])
                                 ELSE Visit(t, outs[t]) >>
                  /\ IF outs[t].status = "config_error"
                     THEN /\ syncErr' = "configuring"
                          /\ ppc' = "failed"
                          /\ UNCHANGED collection
                     ELSE IF outs[t].status = "read_error"
                     THEN /\ syncErr' = "reading"
                          /\ ppc' = "failed"
                          /\ UNCHANGED collection
                     ELSE /\ collection' = Add(collection, outs[t].bookmarks,
                                               SourceInfo(t, PreferredProfile, PathOf(t)))
                          /\ ppc' = "collected"
                          /\ UNCHANGED syncErr
    /\ UNCHANGED <<allMode, browserFlag, profileFlag, outputFormat, cfgProfile,
                   cfgPipeline, pIdx, filterResult, filteredCollection, rendered>>
    /\ UNCHANGED <<filterVars, sharedVars, serverVars, handlerVars, readerVars>>

\* runSync, all-sources mode: readAllInputs entered
ReadAllBegin ==
    /\ ppc = "start" /\ allMode
    /\ ppc' = "read_all"
    /\ pIdx' = 1
    /\ UNCHANGED <<asked, allMode, browserFlag, profileFlag, outputFormat, cfgProfile,
                   cfgPipeline, collection, filterResult, filteredCollection,
                   rendered, syncErr, visits>>
    /\ UNCHANGED <<filterVars, sharedVars, serverVars, handlerVars, readerVars>>

\* readAllInputs: the body of the loop for one name
ReadAllOne_PartialOnError(c, name, out) ==
    IF ~ GetInputOk(name) THEN c
    ELSE IF ~ InputEnabled(name) THEN c
    ELSE IF out.status = "unavailable" THEN c
    ELSE IF out.status = "config_error" THEN c
    ELSE IF out.status = "read_error"
    THEN Add(c, << CHOOSE r \in SourceRecords(name) : TRUE >>,
             SourceInfo(name, "", PathOf(name)))
    ELSE IF Len(out.bookmarks) > 0
    THEN Add(c, out.bookmarks,
             SourceInfo(name, out.bookmarks[1].Profile, PathOf(name)))
    ELSE c

ReadAllOne(c, name, out) ==
    IF ~ GetInputOk(name) THEN c
    ELSE IF ~ InputEnabled(name) THEN c
    ELSE IF out.status = "unavailable" THEN c
    ELSE IF out.status = "config_error" THEN c
    ELSE IF out.status = "read_error" THEN c
    ELSE IF Len(out.bookmarks) > 0
    THEN Add(c, out.bookmarks,
             SourceInfo(name, out.bookmarks[1].Profile, PathOf(name)))
    ELSE c

\* what the source of one iteration does; a source that is not registered
\* or not enabled is not asked anything
IterationOutcomes(name) ==
    IF GetInputOk(name) /\ InputEnabled(name) THEN Outcomes(name)
    ELSE { [status |-> "unavailable", bookmarks |-> <<>>] }

\* readAllInputs: one iteration of the loop over inputPreference
ReadAllStep ==
    /\ ppc = "read_all" /\ pIdx <= Len(inputPreference)
    /\ LET name == inputPreference[pIdx] IN
       \E out \in IterationOutcomes(name) :
          /\ collection' = ReadAllOne(collection, name, out)
          /\ visits' = (IF out.status = "unavailable" THEN visits
                        ELSE Append(visits, Visit(name, out)))
    /\ pIdx' = pIdx + 1
    /\ UNCHANGED <<ppc, asked, allMode, browserFlag, profileFlag, outputFormat, cfgProfile,
                   cfgPipeline, filterResult, filteredCollection, rendered, syncErr>>
    /\ UNCHANGED <<filterVars, sharedVars, serverVars, handlerVars, readerVars>>

\* readAllInputs returns nil
ReadAllEnd ==
    /\ ppc = "read_all" /\ pIdx > Len(inputPreference)
    /\ ppc' = "collected"
    /\ UNCHANGED <<asked, allMode, browserFlag, profileFlag, outputFormat, cfgProfile,
                   cfgPipeline, pIdx, collection, filterResult, filteredCollection,
                   rendered, syncErr, visits>>
    /\ UNCHANGED <<filterVars, sharedVars, serverVars, handlerVars, readerVars>>

\* runSync: Filter, then Deduplicate on what Filter kept when the transform
\* is enabled
FilterThenDeduplicate_DedupFirst(bookmarks, pipeline) ==
    LET fr == Filter(IF pipeline.Deduplicate THEN Deduplicate(bookmarks) ELSE bookmarks,
                     pipeline.Filter)
    IN  [result |-> fr, filtered |-> fr.Bookmarks]

FilterThenDeduplicate(bookmarks, pipeline) ==
    LET fr == Filter(bookmarks, pipeline.Filter)
    IN  [result |-> fr,
         filtered |-> IF pipeline.Deduplicate
                      THEN Deduplicate(fr.Bookmarks) ELSE fr.Bookmarks]

\* runSync: the emptiness check, then Filter, Deduplicate and the
\* collection handed on to the renderer
FilterAndTransform_CheckAfterFilter ==
    /\ ppc = "collected"
    /\ IF Len(FilterThenDeduplicate(collection.Bookmarks, cfgPipeline).filtered) = 0
       THEN /\ syncErr' = "no bookmarks found"
            /\ ppc' = "failed"
            /\ UNCHANGED <<filterResult, filteredCollection>>
       ELSE LET t == FilterThenDeduplicate(collection.Bookmarks, cfgPipeline)
            IN  /\ filterResult' = t.result
                /\ filteredCollection' =
                       << [Bookmarks |-> t.filtered, Sources |-> collection.Sources] >>
                /\ ppc' = "filtered"
                /\ UNCHANGED syncErr
    /\ UNCHANGED <<asked, allMode, browserFlag, profileFlag, outputFormat, cfgProfile,
                   cfgPipeline, pIdx, collection, rendered, visits>>
    /\ UNCHANGED <<filterVars, sharedVars, serverVars, handlerVars, readerVars>>

FilterAndTransform ==
    /\ ppc = "collected"
    /\ IF Count(collection) = 0
       THEN /\ syncErr' = "no bookmarks found"
            /\ ppc' = "failed"
            /\ UNCHANGED <<filterResult, filteredCollection>>
       ELSE LET t == FilterThenDeduplicate(collection.Bookmarks, cfgPipeline)
            IN  /\ filterResult' = t.result
                /\ filteredCollection' =
                       << [Bookmarks |-> t.filtered, Sources |-> collection.Sources] >>
                /\ ppc' = "filtered"
                /\ UNCHANGED syncErr
    /\ UNCHANGED <<asked, allMode, browserFlag, profileFlag, outputFormat, cfgProfile,
                   cfgPipeline, pIdx, collection, rendered, visits>>
    /\ UNCHANGED <<filterVars, sharedVars, serverVars, handlerVars, readerVars>>

\* sort.Slice(bookmarks, less) with less comparing strings.ToLower(Title):
\* for the short slices of the model sort.Slice is an insertion sort, which
\* leaves records with equal keys in their order
TitleLess(a, b) == BytesLess(ToLower(a.Title), ToLower(b.Title))

RECURSIVE insertSorted(_, _)
insertSorted(sorted, b) ==
    IF Len(sorted) = 0 THEN << b >>
    ELSE IF TitleLess(b, sorted[Len(sorted)])
    THEN Append(insertSorted(SubSeq(sorted, 1, Len(sorted) - 1), b), sorted[Len(sorted)])
    ELSE Append(sorted, b)

RECURSIVE sortSliceFrom(_, _, _)
sortSliceFrom(bookmarks, i, sorted) ==
    IF i > Len(bookmarks) THEN sorted
    ELSE sortSliceFrom(bookmarks, i + 1, insertSorted(sorted, bookmarks[i]))

sortSlice(bookmarks) == sortSliceFrom(bookmarks, 1, <<>>)

\* outAdapter.Render(filteredCollection, renderOpts): of the registered
\* renderers only markdown looks at renderOpts.SortAlpha
RenderWith(format, coll, sortAlpha) ==
    Render(format,
           [coll EXCEPT !.Bookmarks = IF sortAlpha /\ format = "markdown"
                                      THEN sortSlice(@) ELSE @])

\* runSync: the output adapter looked up and Render called
RenderOutput ==
    /\ ppc = "filtered"
    /\ IF ~ GetOutputOk(outputFormat)
       THEN /\ syncErr' = "unknown output format"
            /\ ppc' = "failed"
            /\ UNCHANGED rendered
       ELSE /\ rendered' = << RenderWith(outputFormat, filteredCollection[1],
                                         cfgPipeline.Sort) >>
            /\ ppc' = "done"
            /\ UNCHANGED syncErr
    /\ UNCHANGED <<asked, allMode, browserFlag, profileFlag, outputFormat, cfgProfile,
                   cfgPipeline, pIdx, collection, filterResult, filteredCollection,
                   visits>>
    /\ UNCHANGED <<filterVars, sharedVars, serverVars, handlerVars, readerVars>>

\* ------------------------------------------------------------------------
\* Filter engine run: Filter applied to an input drawn from the pools
\* ------------------------------------------------------------------------
InitFilter ==
    /\ fpc = "input"
    /\ fBookmarks \in SeqsUpTo(RecPool, MaxRecs)
    /\ fOpts \in FilterOptionsPool
    /\ fResult = Nil /\ fDedup = Nil
    /\ inputs = StartupInputs /\ outputs = StartupOutputs /\ regLog = <<>> /\ cfgEnabled = {} /\ visits = <<>>
    /\ ServerIdle /\ SyncIdle /\ HandlersIdle /\ ReadersIdle

ApplyFilter ==
    /\ fpc = "input"
    /\ fResult' = Filter(fBookmarks, fOpts)
    /\ fpc' = "filtered"
    /\ UNCHANGED <<fBookmarks, fOpts, fDedup>>
    /\ UNCHANGED <<sharedVars, visits, serverVars, syncVars, handlerVars, readerVars>>

ApplyDeduplicate ==
    /\ fpc = "input"
    /\ fDedup' = Deduplicate(fBookmarks)
    /\ fpc' = "deduplicated"
    /\ UNCHANGED <<fBookmarks, fOpts, fResult>>
    /\ UNCHANGED <<sharedVars, visits, serverVars, syncVars, handlerVars, readerVars>>

NextFilter ==
    \/ ApplyFilter
    \/ ApplyDeduplicate

SpecFilter == InitFilter /\ [][NextFilter]_vars


\* ------------------------------------------------------------------------
\* The program: started as `favs serve` (the MCP server) or as `favs sync`
\* (one run of the pipeline)
\* ------------------------------------------------------------------------
FilterIdle ==
    /\ fpc = "idle" /\ fBookmarks = <<>> /\ fOpts = Nil /\ fResult = Nil /\ fDedup = Nil

Init ==
    \/ InitServer /\ SyncIdle /\ FilterIdle /\ HandlersIdle /\ ReadersIdle
    \/ InitSync /\ ServerIdle /\ FilterIdle /\ HandlersIdle /\ ReadersIdle

Next ==
    \/ Cancel
    \/ LoopTop
    \/ DecodeEOF
    \/ DecodeTypeError
    \/ DecodeSyntaxError
    \/ DecodeSticky
    \/ DecodeRequest
    \/ HandleInitialize
    \/ HandleResourcesList
    \/ HandleToolsList
    \/ HandleUnknownMethod
    \/ HandleInvalidParams
    \/ HandleResourcesRead
    \/ HandleUnknownTool
    \/ SyncClear
    \/ SyncReload
    \/ HandleSearchInvalid
    \/ HandleSearch
    \/ ReadPreferred
    \/ ReadAllBegin
    \/ ReadAllStep
    \/ ReadAllEnd
    \/ FilterAndTransform
    \/ RenderOutput

Spec == Init /\ [][Next]_vars

\* ------------------------------------------------------------------------
\* pkg/adapter: the registry filled by a sequence of registrations
\* ------------------------------------------------------------------------
MaxRegs == 3      \* registrations made

\* adapters handed to the registry: what Name() returns and which
\* implementation it is
InputAdapterPool ==
    { [name |-> n, impl |-> i] : n \in {"x", "chrome", "chromium", "brave"}, i \in {"A", "B"} }

OutputAdapterPool ==
    { [name |-> n, impl |-> i] : n \in {"x", "json", "html"}, i \in {"A", "B"} }

InitRegistry ==
    /\ inputs = << >> /\ outputs = << >> /\ regLog = << >>
    /\ cfgEnabled = {} /\ visits = << >>
    /\ ServerIdle /\ SyncIdle /\ FilterIdle /\ HandlersIdle /\ ReadersIdle

RegisterInput(a) ==
    /\ Len(regLog) < MaxRegs
    /\ inputs' = Store(inputs, a)
    /\ regLog' = Append(regLog, [kind |-> "input", adapter |-> a])
    /\ UNCHANGED <<outputs, cfgEnabled, visits, filterVars, serverVars, syncVars, handlerVars, readerVars>>

RegisterOutput(a) ==
    /\ Len(regLog) < MaxRegs
    /\ outputs' = Store(outputs, a)
    /\ regLog' = Append(regLog, [kind |-> "output", adapter |-> a])
    /\ UNCHANGED <<inputs, cfgEnabled, visits, filterVars, serverVars, syncVars, handlerVars, readerVars>>

NextRegistry ==
    \/ \E a \in InputAdapterPool : RegisterInput(a)
    \/ \E a \in OutputAdapterPool : RegisterOutput(a)

SpecRegistry == InitRegistry /\ [][NextRegistry]_vars

\* ------------------------------------------------------------------------
\* Request handlers run in parallel against one Server
\* ------------------------------------------------------------------------
InitHandlers ==
    /\ inputs = StartupInputs /\ outputs = StartupOutputs /\ regLog = <<>>
    /\ cfgEnabled = {"chrome"} /\ visits = <<>>
    /\ ServerIdle /\ SyncIdle /\ FilterIdle /\ HandlersIdle /\ ReadersIdle

NextHandlers ==
    \E h \in Handlers :
        \/ BeginCall(h)
        \/ InvalidateLock(h)
        \/ Invalidate(h)
        \/ CheckLock(h)
        \/ Check(h)
        \/ Walk(h)
        \/ StoreLock(h)
        \/ StoreCache(h)

SpecHandlers == InitHandlers /\ [][NextHandlers]_vars

\* ------------------------------------------------------------------------
\* One Read of one source reader on a decoded input drawn from the pools
\* ------------------------------------------------------------------------
InitReaders ==
    /\ inputs = StartupInputs /\ outputs = StartupOutputs /\ regLog = <<>>
    /\ cfgEnabled = {} /\ visits = <<>>
    /\ ServerIdle /\ SyncIdle /\ FilterIdle /\ HandlersIdle
    /\ rBookmarks = <<>> /\ rSeen = {} /\ currentParent = 0 /\ folderPath = <<>> /\ pathIter = 0
    /\ \/ rpc = "chromium" /\ rRaw \in ChromiumPool /\ rRow = 0
       \/ rpc = "safari" /\ rRaw \in SafariPool /\ rRow = 0
       \/ rpc = "opml" /\ rRaw \in OPMLPool /\ rRow = 0
       \/ rpc = "fx_rows" /\ rRaw \in FirefoxPool /\ rRow = 1

NextReaders ==
    \/ ReadChromium
    \/ ReadSafari
    \/ ReadOPML
    \/ FirefoxRow
    \/ FirefoxFolderPath

SpecReaders == InitReaders /\ [][NextReaders]_vars

\* the scheduler keeps running the reader
SpecReadersFair == SpecReaders /\ WF_vars(NextReaders)

\* ------------------------------------------------------------------------
\* Properties of the filter engine
\* ------------------------------------------------------------------------
IsSubsequence(k, r) ==
    \E f \in [1..Len(k) -> 1..Len(r)] :
        /\ \A i \in 1..Len(k) : k[i] = r[f[i]]
        /\ \A i \in 1..(Len(k) - 1) : f[i] < f[i + 1]

\* C7: for every input R and rule set F the kept records are a subsequence
\* of R: unmodified elements of R in their original relative order.
C7_KeptIsSubsequence ==
    fpc = "filtered" => IsSubsequence(fResult.Bookmarks, fBookmarks)

C7_Witness ==
    /\ fpc = "filtered"
    /\ Len(fBookmarks) = 2
    /\ Len(fResult.Bookmarks) = 2
    /\ fBookmarks[1] # fBookmarks[2]

\* C8: every input record is either kept or counted as excluded, once.
C8_ExcludedPlusKept ==
    fpc = "filtered" => fResult.Excluded + Len(fResult.Bookmarks) = Len(fBookmarks)

\* a record that matches several exclusion rules (scheme, folder and pattern)
C8_Witness ==
    /\ fpc = "filtered"
    /\ fResult.Excluded >= 1
    /\ \E i \in 1..Len(fBookmarks) :
          /\ extractProtocol(fBookmarks[i].URL) \in excludeProtos(fOpts)
          /\ \E j \in 1..Len(fOpts.ExcludeFolders) :
                Contains(Join(fBookmarks[i].FolderPath, <<"/">>), fOpts.ExcludeFolders[j])
          /\ fOpts.MaxURLLength > 0 /\ Len(fBookmarks[i].URL) > fOpts.MaxURLLength

\* The rules of the filter, stated independently of the loop body.
SchemeOf(url) ==
    IF \E i \in 2..Len(url) : url[i] = ":" /\ \A j \in 1..(i - 1) : url[j] # ":"
    THEN LET i == CHOOSE k \in 2..Len(url) :
                      url[k] = ":" /\ \A j \in 1..(k - 1) : url[j] # ":"
         IN  SubSeq(url, 1, i - 1)
    ELSE <<>>

SeqSet(s) == {s[i] : i \in 1..Len(s)}

NoRuleApplies(b, opts) ==
    LET folderStr == Join(b.FolderPath, <<"/">>)
    IN  /\ ToLower(SchemeOf(b.URL)) \notin {ToLower(p) : p \in SeqSet(opts.ExcludeProtocols)}
        /\ opts.MaxURLLength = 0 \/ Len(b.URL) <= opts.MaxURLLength
        /\ \/ opts.IncludeFolders = <<>>
           \/ \E inc \in SeqSet(opts.IncludeFolders) : Contains(folderStr, inc)
        /\ \A exc \in SeqSet(opts.ExcludeFolders) : ~ Contains(folderStr, exc)
        /\ \A p \in SeqSet(opts.ExcludeURLPatterns) :
              regexpCompile(p) => ~ MatchString(p, b.URL)

\* C9: a record is kept if and only if no exclusion rule applies to it;
\* patterns that do not compile have no effect.
C9_KeptIffNoRuleApplies ==
    fpc = "filtered" =>
        fResult.Bookmarks = SelectSeq(fBookmarks, LAMBDA b : NoRuleApplies(b, fOpts))

\* a pattern that does not compile is present, a record is kept and another
\* is excluded
C9_Witness ==
    /\ fpc = "filtered"
    /\ \E p \in SeqSet(fOpts.ExcludeURLPatterns) : ~ regexpCompile(p)
    /\ Len(fResult.Bookmarks) >= 1
    /\ fResult.Excluded >= 1

HasPrefixFold(s, prefix) ==
    /\ Len(s) >= Len(prefix)
    /\ ToLower(SubSeq(s, 1, Len(prefix))) = ToLower(prefix)

OnlyDataSchemeRule(opts) ==
    /\ Len(opts.ExcludeProtocols) = 1
    /\ ToLower(opts.ExcludeProtocols[1]) = sData
    /\ opts.IncludeFolders = <<>> /\ opts.ExcludeFolders = <<>>
    /\ opts.ExcludeURLPatterns = <<>> /\ opts.MaxURLLength = 0

\* C10: when the only rule is the excluded scheme "data" (any letter
\* case), exactly the records whose URL begins with "data:" (compared
\* case-insensitively) are removed.
C10_DataSchemeOnly ==
    (fpc = "filtered" /\ OnlyDataSchemeRule(fOpts)) =>
        fResult.Bookmarks =
            SelectSeq(fBookmarks, LAMBDA b : ~ HasPrefixFold(b.URL, sData \o <<":">>))

\* the rule is spelled in upper case, a "DaTA:" url is removed and a url
\* without a scheme is kept
C10_Witness ==
    /\ fpc = "filtered" /\ OnlyDataSchemeRule(fOpts)
    /\ fOpts.ExcludeProtocols[1] = sDATA
    /\ \E i \in 1..Len(fBookmarks) : fBookmarks[i].URL = <<"D","a","T","A",":">>
    /\ \E i \in 1..Len(fResult.Bookmarks) : Index(fResult.Bookmarks[i].URL, ":") <= 0


\* The warnings a record sequence calls for, stated independently of the
\* loop body: per record of the input that no rule excludes, a "protocol"
\* warning if its scheme is in the warn set, then a "long_url" warning if
\* warnURLLength > 0 and the url is longer.
WarnsProtocol(b, opts) ==
    ToLower(SchemeOf(b.URL)) \in {ToLower(p) : p \in SeqSet(opts.WarnProtocols)}

WarnsLength(b, opts) == opts.WarnURLLength > 0 /\ Len(b.URL) > opts.WarnURLLength

RECURSIVE ExpectedWarnings(_, _)
ExpectedWarnings(r, opts) ==
    IF Len(r) = 0 THEN <<>>
    ELSE LET b == Head(r)
         IN  (IF NoRuleApplies(b, opts) /\ WarnsProtocol(b, opts)
              THEN << <<"protocol", b.Title>> >> ELSE <<>>)
             \o (IF NoRuleApplies(b, opts) /\ WarnsLength(b, opts)
                  THEN << <<"long_url", b.Title>> >> ELSE <<>>)
             \o ExpectedWarnings(Tail(r), opts)

WithoutWarnRules(opts) == [opts EXCEPT !.WarnProtocols = <<>>, !.WarnURLLength = 0]

\* C11: warnings are advisory.  The kept records are those of the same
\* rule set without its warn rules; the warning list holds, in input
\* order, for each kept record one warning per warn condition it meets
\* (both when it meets both) and nothing for an excluded record.
C11_WarningsAdvisory ==
    fpc = "filtered" =>
        /\ fResult.Bookmarks = Filter(fBookmarks, WithoutWarnRules(fOpts)).Bookmarks
        /\ [i \in 1..Len(fResult.Warnings) |->
                <<fResult.Warnings[i].kind, fResult.Warnings[i].title>>]
             = ExpectedWarnings(fBookmarks, fOpts)

\* an excluded record that meets a warn condition comes first, then a kept
\* record that meets both
C11_Witness ==
    /\ fpc = "filtered" /\ Len(fBookmarks) = 2
    /\ ~ NoRuleApplies(fBookmarks[1], fOpts) /\ WarnsLength(fBookmarks[1], fOpts)
    /\ NoRuleApplies(fBookmarks[2], fOpts)
    /\ WarnsProtocol(fBookmarks[2], fOpts) /\ WarnsLength(fBookmarks[2], fOpts)
    /\ Len(fResult.Warnings) = 2 /\ fResult.Bookmarks = << fBookmarks[2] >>

FirstWithURL(r, url) ==
    r[CHOOSE i \in 1..Len(r) : r[i].URL = url /\ \A j \in 1..(i - 1) : r[j].URL # url]

\* C12: Deduplicate is idempotent and the first occurrence wins: applying
\* it to its own result changes nothing; the result holds every url of the
\* input exactly once, as the first input record with that url, and the
\* survivors keep their relative order.
C12_DeduplicateIdempotent ==
    fpc = "deduplicated" =>
        /\ Deduplicate(fDedup) = fDedup
        /\ {fDedup[i].URL : i \in 1..Len(fDedup)} = {fBookmarks[i].URL : i \in 1..Len(fBookmarks)}
        /\ \A i, j \in 1..Len(fDedup) : fDedup[i].URL = fDedup[j].URL => i = j
        /\ \A i \in 1..Len(fDedup) : fDedup[i] = FirstWithURL(fBookmarks, fDedup[i].URL)
        /\ IsSubsequence(fDedup, fBookmarks)

\* two different records with the same url: only the first survives
C12_Witness ==
    /\ fpc = "deduplicated" /\ Len(fBookmarks) = 2
    /\ fBookmarks[1].URL = fBookmarks[2].URL /\ fBookmarks[1] # fBookmarks[2]
    /\ fDedup = << fBookmarks[1] >>
\* ------------------------------------------------------------------------
\* Properties of the MCP server and of the pipeline
\* ------------------------------------------------------------------------
\* the handler of the request being handled completes in this step
Handled == spc \in {"handle", "sync_reload"} /\ spc' = "loop"

IsResourcesRead(r) == r.Method = "resources/read" /\ UnmarshalOk(r.Params)

IsSyncCall(r) ==
    r.Method = "tools/call" /\ UnmarshalOk(r.Params) /\ r.Params.Name = "sync_bookmarks"

\* the sources that contributed during a walk: Read succeeded with at
\* least one record
Contributors(v) == SelectSeq(v, LAMBDA x : x.status = "ok" /\ x.n > 0)

RECURSIVE SumN(_)
SumN(v) == IF Len(v) = 0 THEN 0 ELSE Head(v).n + SumN(Tail(v))

\* the collection is made of exactly the contributions of the walk: one
\* SourceInfo per contributor, in order, with its record count, and no
\* record of any other source
BuiltFrom(c, v) ==
    LET ok == Contributors(v)
    IN  /\ Len(c.Sources) = Len(ok)
        /\ \A i \in 1..Len(ok) : /\ c.Sources[i].Name = ok[i].name
                                 /\ c.Sources[i].Count = ok[i].n
        /\ Len(c.Bookmarks) = SumN(ok)
        /\ \A i \in 1..Len(c.Bookmarks) :
              \E j \in 1..Len(ok) : c.Bookmarks[i].Source = ok[j].name

\* C1: once a resources/read has been answered, every later resources/read
\* with no sync_bookmarks call in between is answered with the same
\* collection and invokes no Read; a sync_bookmarks call rebuilds the cache
\* from the sources it visits during the call.
C1_CachedUntilSync ==
    [][ /\ (Handled /\ IsResourcesRead(req) /\ served # <<>>) =>
              /\ served' = served
              /\ resp'.Error = NoError
              /\ resp'.Result.text.Bookmarks = served[1].Bookmarks
              /\ resp'.Result.text.Sources = served[1].Sources
              /\ \A i \in 1..Len(visits') : ~ ReadInvoked(visits'[i])
        /\ (Handled /\ IsSyncCall(req)) =>
              /\ cache' # <<>>
              /\ BuiltFrom(cache'[1], visits')
      ]_vars

\* a second resources/read, answered from a non-empty cache without a visit
C1_Witness ==
    /\ spc = "loop" /\ nDecoded >= 2
    /\ IsResourcesRead(req) /\ resp.Error = NoError
    /\ served # <<>> /\ Len(served[1].Bookmarks) > 0
    /\ resp.Result.text.Bookmarks = served[1].Bookmarks
    /\ visits = <<>>

\* C2: a populated cache is changed only by the sync_bookmarks tool call,
\* which empties it; no other request clears or replaces it.
C2_OnlySyncInvalidates ==
    [][ (cache # <<>> /\ cache' # cache) =>
            (spc = "handle" /\ IsSyncCall(req) /\ cache' = <<>>) ]_vars

\* another method has been answered while the cache stayed populated
C2_Witness ==
    /\ spc = "loop" /\ cache # <<>> /\ Len(cache[1].Bookmarks) > 0
    /\ nDecoded >= 2 /\ visits = <<>>
    /\ resp.Error.Code = CodeMethodNotFound

\* C3: a malformed frame is skipped and the loop goes on reading stdin:
\* whenever the loop is about to decode the next frame, the decoder reads
\* it from stdin, so a well-formed request that follows a malformed frame
\* is answered and end-of-input ends the loop.
C3_SkippedFrameKeepsReading ==
    spc = "decode" => decErr = ""

\* C4: every decoded request gets exactly one structured response before
\* the next frame is read, and Run returns only on end-of-input (nil) or
\* after cancellation.
C4_OneResponsePerRequest ==
    /\ spc \in {"loop", "decode", "returned"} => nResp = nDecoded
    /\ spc \in {"handle", "sync_reload"} => nResp + 1 = nDecoded
    /\ (spc = "loop" /\ req # NoRequest) =>
          /\ resp.ID = req.ID
          /\ (resp.Result = NoResult) # (resp.Error = NoError)
    /\ spc = "returned" =>
          \/ retErr = "" /\ decErr = "EOF"
          \/ retErr = "context canceled" /\ cancelled

\* an error response was written, a later request was answered too, and
\* Run returned nil at end-of-input
C4_Witness ==
    /\ spc = "returned" /\ retErr = "" /\ ~ cancelled
    /\ nErrors >= 1 /\ nResp = 2 /\ nDecoded = 2

\* C5: every Collection satisfies sum(Sources.Count) = len(Bookmarks): the
\* one being assembled, the server cache, and the filtered Collection
\* handed to the renderer.
CountsMatch(c) == SumCounts(c.Sources) = Len(c.Bookmarks)

C5_CountsMatchEverywhere ==
    /\ CountsMatch(collection)
    /\ cache # <<>> => CountsMatch(cache[1])
    /\ filteredCollection # <<>> => CountsMatch(filteredCollection[1])

\* C6: in all-sources mode a source whose Configure or Read fails
\* contributes nothing, the other sources are still visited, and the read
\* step returns no error -- in readAllInputs and in Server.getBookmarks.
C6_FailedSourceSkipped ==
    /\ (allMode /\ ppc # "start") =>
          /\ BuiltFrom(collection, visits)
          /\ syncErr \in {"", "no bookmarks found", "unknown output format"}
          /\ ppc # "read_all" => pIdx = Len(inputPreference) + 1
    /\ (spc = "loop" /\ visits # <<>>) =>
          /\ cache # <<>>
          /\ BuiltFrom(cache[1], visits)
          /\ resp.Error = NoError

\* chrome returned 3 records, the Read of firefox failed: 3 records and
\* one SourceInfo (chrome), and the read step is over without an error
C6_Witness ==
    /\ allMode /\ ppc = "collected" /\ syncErr = ""
    /\ Len(visits) = 2
    /\ visits[1] = [name |-> "chrome", status |-> "ok", n |-> 3]
    /\ visits[2].status = "read_error"
    /\ Len(collection.Bookmarks) = 3
    /\ Len(collection.Sources) = 1 /\ collection.Sources[1].Name = "chrome"


\* the source a per-source resource identifier names, "" for every other
\* identifier
SourceOfURI(uri) ==
    IF \E n \in DOMAIN inputs : uri = "favs://" \o n
    THEN CHOOSE n \in DOMAIN inputs : uri = "favs://" \o n
    ELSE ""

IsContents(r) == r.Error = NoError /\ r.Result.kind = "contents"

\* C15: a resources/read of favs://<source> renders exactly the cached
\* records that <source> contributed; favs://all and favs://markdown render
\* the whole cached collection.
C15_PerSourceNarrowed ==
    (IsContents(resp) /\ cache # <<>>) =>
        LET uri == resp.Result.uri
            shown == resp.Result.text.Bookmarks
        IN  /\ uri \in {"favs://all", "favs://markdown"} => shown = cache[1].Bookmarks
            /\ SourceOfURI(uri) # "" =>
                  shown = SelectSeq(cache[1].Bookmarks,
                                    LAMBDA b : b.Source = SourceOfURI(uri))

IsSearchCall(r) ==
    /\ r.Method = "tools/call" /\ r.Params.kind = "object"
    /\ r.Params.Name = "search_bookmarks"

IsMatches(r) == r.Error = NoError /\ r.Result.kind = "matches"

\* q occurs in the title or in the url when letter case is disregarded
MatchesQuery(b, q) ==
    \/ Contains(ToLower(b.Title), ToLower(q))
    \/ Contains(ToLower(b.URL), ToLower(q))

Answered == spc = "loop" /\ req # NoRequest

KnownMethods == {"initialize", "resources/list", "resources/read", "tools/list", "tools/call"}

\* C17: a request whose method is none of the five known ones is answered
\* with an error response that carries the request's id, the code -32601
\* and no result.
C17_UnknownMethod ==
    (Answered /\ req.Method \notin KnownMethods) =>
        /\ resp.ID = req.ID
        /\ resp.Error.Code = -32601
        /\ resp.Result = NoResult

\* the second request, "ping", answered with the error
C17_Witness ==
    /\ Answered /\ req.Method = "ping" /\ req.ID = 2 /\ nDecoded = 2
    /\ resp.ID = 2 /\ resp.Error.Code = -32601

\* the params payload is absent or is not an object of the expected shape
BadParams(r) == r.Method \in {"resources/read", "tools/call"} /\ r.Params.kind # "object"

UnknownTool(r) ==
    /\ r.Method = "tools/call" /\ r.Params.kind = "object"
    /\ r.Params.Name \notin {"sync_bookmarks", "search_bookmarks"}

\* C18: resources/read or tools/call with a malformed or absent params
\* payload, and tools/call naming an unknown tool, are answered with the
\* error code -32602 and no result.
C18_InvalidParams ==
    (Answered /\ (BadParams(req) \/ UnknownTool(req))) =>
        /\ resp.ID = req.ID
        /\ resp.Error.Code = -32602
        /\ resp.Result = NoResult

\* a resources/read without params was answered with the error, then a
\* tools/call for an unknown tool
C18_Witness ==
    /\ Answered /\ UnknownTool(req) /\ req.Params.Name = "export_bookmarks"
    /\ resp.Error.Code = -32602
    /\ nErrors = 2 /\ nDecoded = 2

\* C19: a search_bookmarks call whose arguments carry no query is
\* answered with the error code -32602, not with a list of matches.
C19_QueryRequired ==
    (Answered /\ IsSearchCall(req) /\ ~ req.Params.Arguments.HasQuery) =>
        /\ resp.Error.Code = -32602
        /\ resp.Result = NoResult

\* C22: once the context is cancelled no further source is configured or
\* read: a walk over the sources makes no visit after the cancellation.
C22_NoVisitAfterCancel ==
    [][ cancelled => (visits' = visits \/ visits' = <<>>) ]_vars

\* position of a name in the preference order of all-sources mode
PreferenceRank(n) ==
    CHOOSE i \in 1..6 :
        <<"chrome", "firefox", "edge", "safari", "chromium", "brave">>[i] = n

\* the collection is what all-sources mode builds from the same per-source
\* results: the contributions follow each other in preference order
InAllSourcesOrder(c) ==
    /\ \A i \in 1..(Len(c.Sources) - 1) :
          PreferenceRank(c.Sources[i].Name) < PreferenceRank(c.Sources[i + 1].Name)
    /\ \A i \in 1..(Len(c.Bookmarks) - 1) :
          PreferenceRank(c.Bookmarks[i].Source) <= PreferenceRank(c.Bookmarks[i + 1].Source)

\* C23: the collection the server caches equals the one all-sources mode
\* builds for the same registry, configuration and per-source results: in
\* both the sources are attempted, and their records and SourceInfos
\* follow each other, in the fixed preference order.
C23_CacheEqualsAllSourcesRead ==
    /\ allMode => InAllSourcesOrder(collection)
    /\ cache # <<>> => InAllSourcesOrder(cache[1])

\* C25: with request handlers running in parallel, (a) the populate
\* transition and the invalidation never overlap, (b) the sources are
\* walked at most once per Empty -> Populated transition of the cache, and
\* (c) the cache never holds a collection that was read before an
\* invalidation that has already happened.
C25_ExclusivePopulate ==
    /\ Cardinality({h \in Handlers : hpc[h] \in {"s_clear", "store"}}) <= 1
    /\ walksSinceEmpty <= 1
    /\ cache # <<>> => cacheReadAt = nInvalidations

\* the part of C25 that the lock does give: the writes to s.cache exclude
\* each other and the readers of s.cache
C25_WritesExcluded ==
    /\ Cardinality({h \in Handlers : hpc[h] \in {"s_clear", "store"}}) <= 1
    /\ (\E h \in Handlers : hpc[h] \in {"s_clear", "store"})
           => \A h \in Handlers : hpc[h] # "check"

\* clause (c) of C25 alone
C25_NoStaleStore == cache # <<>> => cacheReadAt = nInvalidations

\* the request being handled gets its bookmarks from getBookmarks
UsesBookmarks(r) ==
    \/ IsResourcesRead(r)
    \/ IsSyncCall(r)
    \/ IsSearchCall(r) /\ UnmarshalOk(r.Params.Arguments)

\* C27: every request that needs the bookmarks leaves the cache Populated
\* and is never answered with the internal error, whatever the sources
\* did; when the cache holds an empty collection, resources/read and
\* search are answered from it: the cache stays as it is, no source is
\* visited, and the answer carries no record.
C27_PopulateNeverFails ==
    [][ (Handled /\ UsesBookmarks(req)) =>
            /\ cache' # <<>>
            /\ resp'.Error.Code # CodeInternal
            /\ (cache # <<>> /\ Count(cache[1]) = 0) =>
                  /\ cache' = cache
                  /\ visits' = <<>>
                  /\ IsResourcesRead(req) => resp'.Result.text.Bookmarks = <<>>
                  /\ ~ IsResourcesRead(req) => resp'.Result.found = 0
      ]_vars

\* every enabled source failed during the first request; the second, a
\* search, was answered from the empty cache
C27_Witness ==
    /\ Answered /\ nDecoded = 2 /\ IsSearchCall(req)
    /\ cfgEnabled = {"chrome", "firefox"}
    /\ cache # <<>> /\ Count(cache[1]) = 0
    /\ resp.Error = NoError /\ resp.Result.found = 0
    /\ visits = <<>>

\* the request is answered without getBookmarks being called
NoCacheRequest(r) ==
    \/ r.Method \in {"initialize", "resources/list", "tools/list"}
    \/ r.Method \notin KnownMethods
    \/ BadParams(r)
    \/ UnknownTool(r)
    \/ /\ r.Method = "tools/call" /\ r.Params.kind = "object"
       /\ r.Params.Name = "search_bookmarks"
       /\ ~ UnmarshalOk(r.Params.Arguments)

\* C28: handling initialize, resources/list, tools/list, an unknown
\* method, or a resources/read or tools/call that is rejected with invalid
\* params leaves the cache as it was and visits no source.
C28_NoCacheRequestsFrame ==
    [][ /\ (Handled /\ NoCacheRequest(req)) =>
              /\ cache' = cache
              /\ visits' = <<>>
        /\ (spc = "handle" /\ NoCacheRequest(req)) => spc' \in {"handle", "loop"}
      ]_vars

\* a populated cache that survived a rejected search call
C28_Witness ==
    /\ Answered /\ nDecoded = 2
    /\ req.Method = "tools/call" /\ req.Params.Name = "search_bookmarks"
    /\ NoCacheRequest(req)
    /\ resp.Error.Code = CodeInvalidParams
    /\ cache # <<>> /\ Count(cache[1]) > 0
    /\ visits = <<>>

\* ------------------------------------------------------------------------
\* Properties of the pipeline
\* ------------------------------------------------------------------------
\* the first record of every url of s, in order
RECURSIVE FirstOccurrences(_, _)
FirstOccurrences(s, i) ==
    IF i > Len(s) THEN <<>>
    ELSE (IF \E j \in 1..(i - 1) : s[j].URL = s[i].URL THEN <<>> ELSE << s[i] >>)
         \o FirstOccurrences(s, i + 1)

KeptByRules(r, opts) == SelectSeq(r, LAMBDA b : NoRuleApplies(b, opts))

\* the same records, each as many times, in some order
SameRecords(a, b) ==
    /\ Len(a) = Len(b)
    /\ \A i \in 1..Len(a) :
          Cardinality({j \in 1..Len(a) : a[j] = a[i]})
              = Cardinality({j \in 1..Len(b) : b[j] = a[i]})

\* C13: deduplication is applied to what the filter kept, never before
\* it.  The records handed to the renderer are the first occurrences among
\* the records no rule excludes (all of them when deduplication is off),
\* the exclusion count is the number of records a rule excludes, and the
\* renderer renders exactly those records (in that order unless the sort
\* transform is on).
C13_DedupAfterFilter ==
    filteredCollection # <<>> =>
        LET kept == KeptByRules(collection.Bookmarks, cfgPipeline.Filter)
        IN  /\ filterResult.Excluded = Len(collection.Bookmarks) - Len(kept)
            /\ filteredCollection[1].Bookmarks =
                   (IF cfgPipeline.Deduplicate THEN FirstOccurrences(kept, 1) ELSE kept)
            /\ rendered # <<>> =>
                  /\ SameRecords(rendered[1].Bookmarks, filteredCollection[1].Bookmarks)
                  /\ ~ cfgPipeline.Sort =>
                        rendered[1].Bookmarks = filteredCollection[1].Bookmarks

\* [h:a "GitHub", js:a "Docs", h:a "Hub"] with the scheme js excluded and
\* deduplication on: rendered as [h:a "GitHub"], one record excluded
C13_Witness ==
    /\ ppc = "done" /\ cfgPipeline.Deduplicate
    /\ cfgPipeline.Filter.ExcludeProtocols = <<sJs>>
    /\ [i \in 1..Len(collection.Bookmarks) |-> collection.Bookmarks[i].Title]
           = <<sGitHub, sDocs, sHub>>
    /\ Len(rendered[1].Bookmarks) = 1 /\ rendered[1].Bookmarks[1].Title = sGitHub
    /\ filterResult.Excluded = 1

\* runSync got past the read step: readAllInputs or readPreferredInput
\* returned nil
ReadStepDone ==
    \/ ppc \in {"collected", "filtered", "done"}
    \/ ppc = "failed" /\ syncErr \in {"no bookmarks found", "unknown output format"}

\* C20: the pipeline fails with "no bookmarks found" exactly when the read
\* step collected zero records; the check comes before filtering, so a run
\* whose records are all excluded by the filter passes it and still calls
\* the renderer (with a registered format).
C20_EmptyResultBeforeFilter ==
    /\ syncErr = "no bookmarks found" =>
          /\ ppc = "failed" /\ Count(collection) = 0
          /\ filteredCollection = <<>> /\ rendered = <<>>
    /\ (ReadStepDone /\ ppc # "collected" /\ Count(collection) = 0) =>
          syncErr = "no bookmarks found"
    /\ (ReadStepDone /\ ppc # "collected" /\ Count(collection) > 0) =>
          /\ syncErr # "no bookmarks found"
          /\ filteredCollection # <<>>
          /\ ppc = "done" => rendered # <<>> /\ syncErr = ""
          /\ ppc = "failed" => ~ GetOutputOk(outputFormat)

\* records were collected, the filter excluded every one of them, and the
\* renderer was called with an empty collection
C20_Witness ==
    /\ ppc = "done" /\ syncErr = ""
    /\ Count(collection) >= 1
    /\ filterResult.Excluded = Count(collection)
    /\ rendered # <<>> /\ rendered[1].Bookmarks = <<>>

\* the preference order of single-source mode, spelled out
PreferenceOrder == <<"chrome", "firefox", "edge", "safari", "chromium", "brave">>

Candidates == SelectSeq(PreferenceOrder, LAMBDA n : n \in DOMAIN inputs /\ n \in cfgEnabled)

PreferenceWalkDone == ~ allMode /\ browserFlag = "" /\ ppc \notin {"idle", "start"}

\* C21: without an explicit name the source read is the first one in the
\* preference order that is registered, enabled and reports Available();
\* when none qualifies the run fails with "no available browser found" and
\* nothing is configured or read; when the Read of the selected source
\* fails the run fails with a read error and the Collection stays empty.
C21_PreferredSource ==
    PreferenceWalkDone =>
        /\ Len(asked) <= Len(Candidates)
        /\ \A i \in 1..Len(asked) : asked[i].name = Candidates[i]
        /\ \A i \in 1..(Len(asked) - 1) : ~ asked[i].available
        /\ IF asked = <<>> \/ ~ asked[Len(asked)].available
           THEN /\ Len(asked) = Len(Candidates)
                /\ ppc = "failed" /\ syncErr = "no available browser found"
                /\ visits = <<>> /\ collection = NewCollection
           ELSE /\ Len(visits) = 1 /\ visits[1].name = asked[Len(asked)].name
                /\ visits[1].status = "read_error" =>
                      /\ ppc = "failed" /\ syncErr = "reading"
                      /\ collection = NewCollection
                /\ visits[1].status = "ok" =>
                      /\ Len(collection.Sources) = 1
                      /\ collection.Sources[1].Name = visits[1].name
                      /\ Count(collection) = visits[1].n

\* firefox and edge are enabled, firefox is unavailable: edge is read
C21_Witness ==
    /\ PreferenceWalkDone /\ cfgEnabled = {"firefox", "edge"}
    /\ asked = << [name |-> "firefox", available |-> FALSE],
                  [name |-> "edge", available |-> TRUE] >>
    /\ visits[1].name = "edge" /\ visits[1].status = "ok" /\ visits[1].n = 1
    /\ ppc = "done"

\* titles in ascending order when letter case is disregarded
SortedByTitle(s) ==
    \A i \in 1..(Len(s) - 1) :
        ~ BytesLess(ToLower(s[i + 1].Title), ToLower(s[i].Title))

\* C24: with the sort transform enabled the rendered records are ordered
\* case-insensitively by title whichever renderer is requested; with it
\* disabled they stay in collection order.
C24_SortedWhenEnabled ==
    rendered # <<>> =>
        IF cfgPipeline.Sort
        THEN SortedByTitle(rendered[1].Bookmarks)
        ELSE rendered[1].Bookmarks = filteredCollection[1].Bookmarks

\* C26: every record a source reader returns has a non-empty url
C26_NoEmptyURL ==
    \A i \in 1..Len(rBookmarks) : rBookmarks[i].URL # <<>>

\* the safari and the opml reader do drop the entries without a URL
C26_SafariOPMLDrop ==
    \A i \in 1..Len(rBookmarks) :
        rBookmarks[i].Source \in {"safari", "opml"} => rBookmarks[i].URL # <<>>

\* C30: the firefox reader, once started on the rows of the bookmark
\* query, returns
C30_FolderPathTerminates ==
    (rpc \in {"fx_rows", "fx_path"}) ~> (rpc = "done")

ExplicitReadDone == ~ allMode /\ browserFlag # "" /\ ppc \notin {"idle", "start"}

\* C29: with --browser the only resolution check is registration: a
\* registered adapter is configured and read whether or not it is enabled
\* and whatever Available() would answer; an unregistered name fails with
\* "unknown browser" and nothing is visited; Available() is asked of no
\* source of the preference order.
C29_ExplicitSource ==
    ExplicitReadDone =>
        /\ asked = <<>>
        /\ IF browserFlag \in DOMAIN inputs
           THEN /\ Len(visits) = 1 /\ visits[1].name = browserFlag
                /\ syncErr \notin {"unknown browser", "no available browser found"}
                /\ visits[1].status = "ok" =>
                      /\ Len(collection.Sources) = 1
                      /\ collection.Sources[1].Name = browserFlag
                      /\ Count(collection) = visits[1].n
           ELSE /\ ppc = "failed" /\ syncErr = "unknown browser"
                /\ visits = <<>> /\ collection = NewCollection

\* firefox, disabled in the configuration and not available, was named,
\* read and rendered
C29_Witness ==
    /\ ExplicitReadDone /\ browserFlag = "firefox" /\ "firefox" \notin cfgEnabled
    /\ visits[1].name = "firefox" /\ ~ visits[1].available
    /\ visits[1].status = "ok" /\ visits[1].n = 1
    /\ ppc = "done"

\* an unregistered name was refused
C29_WitnessUnknown ==
    /\ ExplicitReadDone /\ browserFlag = "netscape" /\ syncErr = "unknown browser"

\* ------------------------------------------------------------------------
\* Properties of the registry
\* ------------------------------------------------------------------------
\* the registrations of one kind under one name, in the order made
RegistrationsOf(kind, name) ==
    SelectSeq(regLog, LAMBDA r : r.kind = kind /\ r.adapter.name = name)

LastRegistered(kind, name) ==
    RegistrationsOf(kind, name)[Len(RegistrationsOf(kind, name))].adapter

RegisteredNames(kind) ==
    { regLog[i].adapter.name : i \in { j \in 1..Len(regLog) : regLog[j].kind = kind } }

LookupNames == {"x", "chrome", "chromium", "brave", "json", "html", "edge"}

SortedOnce(list, names) ==
    /\ Len(list) = Cardinality(names)
    /\ { list[i] : i \in 1..Len(list) } = names
    /\ \A i \in 1..(Len(list) - 1) : StringLess(list[i], list[i + 1])

\* C14: after any sequence of registrations, a lookup returns the adapter
\* of the most recent registration under that name and found = false for a
\* name never registered; the listing holds every registered name exactly
\* once in ascending order, whatever the registration order.  The same
\* for outputs.
C14_RegistryLastWins ==
    /\ \A n \in LookupNames :
          /\ GetInput(n).ok = (n \in RegisteredNames("input"))
          /\ GetInput(n).ok => GetInput(n).adapter = LastRegistered("input", n)
          /\ GetOutput(n).ok = (n \in RegisteredNames("output"))
          /\ GetOutput(n).ok => GetOutput(n).adapter = LastRegistered("output", n)
    /\ SortedOnce(ListInputs, RegisteredNames("input"))
    /\ SortedOnce(ListOutputs, RegisteredNames("output"))

\* "x" registered with implementation A and then with B, after a name
\* that sorts later than one registered after it
C14_Witness ==
    /\ Len(regLog) = 3
    /\ regLog[1].kind = "input" /\ regLog[1].adapter = [name |-> "x", impl |-> "A"]
    /\ regLog[2].kind = "input" /\ regLog[2].adapter = [name |-> "chrome", impl |-> "A"]
    /\ regLog[3].kind = "input" /\ regLog[3].adapter = [name |-> "x", impl |-> "B"]
    /\ GetInput("x").adapter.impl = "B"
    /\ ListInputs = <<"chrome", "x">>
====
